---- MODULE Spec2Model ----
(***************************************************************************)
(* Model of borderzero/discovery:                                          *)
(*   - OneOffEngine.Run            (engines/engine_oneoff.go)              *)
(*   - ContinuousEngine.Run        (engines, three-channel variant)        *)
(*   - runContinuously / runOnce   (engines/common.go, three-channel       *)
(*                                  variant and ticker-only variant)       *)
(*   - Result and its methods      (result.go)                             *)
(*   - the tag filters             (utils/kv_filtering.go, utils/tags.go,  *)
(*                                  evaluateKubernetesPodLabels)           *)
(* Goroutines are interleaved one statement at a time.  A panic in an      *)
(* engine ends the process: every engine action is guarded by              *)
(* panicked = "none".                                                      *)
(***************************************************************************)
EXTENDS Integers, Sequences, FiniteSets, Bags, TLC

\* ---------------------------------------------------------------- bounds
\* number of discoverers an engine is configured with
MaxDiscoverers == 2
\* passes (runOnce goroutines) launched in one run of the continuous engine
MaxPasses == 3
\* largest interval, in clock units
MaxInterval == 2
\* largest capacity of the results channel handed to Run
MaxCap == 1
\* number of discoverers of a continuous engine whose discoverers are given
\* interval-update and trigger channels
MaxLoops == 1
\* goroutines that each call one method of the same Result
MaxCallers == 3
\* largest reading of the clock
MaxNow == 3
\* longest list of values a filter rule has
MaxFilterValues == 1
\* upstream discoverers of a MultipleUpstreamDiscoverer
MaxUpstreams == 3
\* Results an upstream discoverer writes in one Discover call
MaxResultsPerChild == 1
\* resources in one Result of an upstream discoverer
MaxChildResources == 2
\* upstream discoverers of a composite with resources / errors channels
MaxChanUpstreams == 2
\* batches and errors an upstream discoverer writes in one Discover call
MaxWritesPerChild == 2
\* options handed to the constructor of an AWS discoverer
MaxOptions == 2
\* instances (clusters) the AWS API returns to one Discover call
MaxInstances == 2
\* non-empty address fields of one instance
MaxAddresses == 1
\* targets of a NetworkDiscoverer
MaxTargets == 2
\* (ip, port) pairs of one target
MaxScans == 3
\* largest maxConcurrency of a NetworkDiscoverer
MaxConcurrency == 2
\* upstream discoverers of a ContinuousDiscoverer
MaxContUpstreams == 2
\* passes one RunContinuously goroutine starts (the initial one included)
MaxContPasses == 2
\* bytes of an address, and bits of one byte (net.IP: 16 bytes of 8 bits)
MaxIpLen == 2
MaxByteBits == 2

VARIABLES
    discoverers,    \* the engine's configured discoverers (a sequence of configs)
    ctxDone,        \* ctx has been cancelled: <-ctx.Done() is ready
    resultsCap,     \* cap(results)
    resultsBuf,     \* buffered content of the results channel
    resultsClosed,  \* close(results) has run
    received,       \* bag of Results the consumer has received
    runPc,          \* position of Engine.Run
    runIdx,         \* index of the next discoverer the for-loop of Run takes
    wg,             \* counter of Run's sync.WaitGroup
    innerWg,        \* counter of each runContinuously's innerWg
    loopPc,         \* position of each runContinuously goroutine
    interval,       \* local variable interval of each runContinuously
    ticker,         \* each runContinuously's time.Ticker
    intervalC,      \* state of each discoverer's interval-update channel
    triggerC,       \* state of each discoverer's trigger channel
    passes,         \* per discoverer, the runOnce goroutines launched, in launch order
    panicked,       \* "none", or the message of the panic that ended the process
    result,         \* a *Result: Resources, Errors, Warnings, Metadata
    mutex,          \* the Result's sync.Mutex: 0 when unlocked, else the goroutine holding it
    callers,        \* the goroutines calling methods of the Result
    now,            \* what time.Now() returns
    kv,             \* the key-value pairs (tags, labels) handed to a tag filter
    inclusion,      \* the inclusion filter handed to a tag filter
    exclusion,      \* the exclusion filter handed to a tag filter
    filterFn,       \* the tag filter that was called
    filterRet,      \* what the tag filter returned
    mud,            \* a MultipleUpstreamDiscoverer.Discover call and its goroutines
    aws,            \* an AwsEc2/AwsRds/AwsEksDiscoverer: construction, Discover, goroutines
    nd,             \* a NetworkDiscoverer.Discover call, its semaphore and goroutines
    cd,             \* a ContinuousDiscoverer.Discover call and its goroutines
    ipr             \* a rangeToIPs call: its arguments, locals and return value

engineVars == <<discoverers, ctxDone, resultsCap, resultsBuf, resultsClosed,
                received, runPc, runIdx, wg, innerWg, loopPc, interval, ticker,
                intervalC, triggerC, passes, panicked>>
resultVars == <<result, mutex, callers, now>>
filterVars == <<kv, inclusion, exclusion, filterFn, filterRet>>

\* the discoverers modelled on their own, one variable each
compVars == <<mud, aws, nd, cd, ipr>>

\* the variables of the components the engines do not touch
dataVars == <<resultVars, filterVars, compVars>>

\* what the methods of Result, and the tag filters, leave alone
resultFrame == <<engineVars, filterVars, compVars>>
filterFrame == <<engineVars, resultVars, compVars>>

\* a component that is not in use
Idle == [pc |-> "idle"]
CompIdle == mud = Idle /\ aws = Idle /\ nd = Idle /\ cd = Idle /\ ipr = Idle

vars == <<engineVars, dataVars>>

chanVars == <<resultsBuf, resultsClosed, received>>
loopVars == <<innerWg, loopPc, interval, ticker, intervalC, triggerC>>

Ids == 1..MaxDiscoverers
N == Len(discoverers)

\* A *Result is identified by the Discover call that allocated it:
\* discoverer d, its k-th pass.
ResultOf(d, k) == <<d, k>>

TotalPasses == LET RECURSIVE Sum(_)
                   Sum(d) == IF d = 0 THEN 0 ELSE Len(passes[d]) + Sum(d - 1)
               IN Sum(MaxDiscoverers)

NoTicker == [on |-> FALSE, period |-> 0, remaining |-> 0, c |-> FALSE]

\* An interval-update or trigger channel: nil, open or closed, and the
\* message a sender is offering on it (at most one at a time).
NilChan == [st |-> "nil", q |-> <<>>]
OpenChan == [st |-> "open", q |-> <<>>]

\* ----------------------------------------------------------------- Result

Callers == 1..MaxCallers

\* the zero time.Time: the value of a timestamp that was never set
ZeroTime == 0

\* NewResult(discovererId): empty lists, StartedAt = time.Now(), EndedAt left
\* at its zero value
NewResult(discovererId) ==
    [Resources |-> <<>>,
     Metadata |-> [DiscovererId |-> discovererId, StartedAt |-> now,
                   EndedAt |-> ZeroTime],
     Errors |-> <<>>,
     Warnings |-> <<>>]

\* the methods of Result that take the lock
Methods == {"AddResources", "AddError", "AddWarning", "Done"}

\* a goroutine that has not called its method yet
NotCalled == [pc |-> "idle", op |-> "none", local |-> <<>>]

\* what goroutine g passes to its method: one resource, error or warning
ArgOf(g) == <<"item", g>>

\* the right-hand side of the assignment in the body of method op:
\*   append(r.Resources, resources...), append(r.Errors, err),
\*   append(r.Warnings, warn), time.Now()
Evaluated(op, arg) ==
    CASE op = "AddResources" -> Append(result.Resources, arg)
      [] op = "AddError" -> Append(result.Errors, arg)
      [] op = "AddWarning" -> Append(result.Warnings, arg)
      [] op = "Done" -> now

\* mutant: AddError also stamps the end time
Assigned_ErrorEndsResult(op, v) ==
    CASE op = "AddResources" -> [result EXCEPT !.Resources = v]
      [] op = "AddError" -> [result EXCEPT !.Errors = v, !.Metadata.EndedAt = now]
      [] op = "AddWarning" -> [result EXCEPT !.Warnings = v]
      [] op = "Done" -> [result EXCEPT !.Metadata.EndedAt = v]

\* mutant: Done keeps the end time of an earlier Done (first write wins)
Assigned_DoneOnce(op, v) ==
    CASE op = "AddResources" -> [result EXCEPT !.Resources = v]
      [] op = "AddError" -> [result EXCEPT !.Errors = v]
      [] op = "AddWarning" -> [result EXCEPT !.Warnings = v]
      [] op = "Done" -> IF result.Metadata.EndedAt = ZeroTime
                        THEN [result EXCEPT !.Metadata.EndedAt = v]
                        ELSE result

\* the assignment in the body of method op:
\*   r.Resources = ..., r.Errors = ..., r.Warnings = ..., r.Metadata.EndedAt = ...
Assigned(op, v) ==
    CASE op = "AddResources" -> [result EXCEPT !.Resources = v]
      [] op = "AddError" -> [result EXCEPT !.Errors = v]
      [] op = "AddWarning" -> [result EXCEPT !.Warnings = v]
      [] op = "Done" -> [result EXCEPT !.Metadata.EndedAt = v]

\* mutant: the method does not take the Result's mutex
ResultLock_NoMutex(g, op) ==
    /\ callers[g].pc = "idle"
    /\ callers' = [callers EXCEPT ![g] = [pc |-> "locked", op |-> op, local |-> <<>>]]
    /\ UNCHANGED <<resultFrame, result, mutex, now>>

\* goroutine g calls method op; r.Lock() returns once the mutex is free
ResultLock(g, op) ==
    /\ callers[g].pc = "idle"
    /\ mutex = 0
    /\ mutex' = g
    /\ callers' = [callers EXCEPT ![g] = [pc |-> "locked", op |-> op, local |-> <<>>]]
    /\ UNCHANGED <<resultFrame, result, now>>

\* the body's right-hand side is evaluated (the field is read)
ResultLoad(g) ==
    /\ callers[g].pc = "locked"
    /\ callers' = [callers EXCEPT ![g].pc = "loaded",
                                  ![g].local = Evaluated(callers[g].op, ArgOf(g))]
    /\ UNCHANGED <<resultFrame, result, mutex, now>>

\* the body's assignment (the field is written)
ResultStore(g) ==
    /\ callers[g].pc = "loaded"
    /\ result' = Assigned(callers[g].op, callers[g].local)
    /\ callers' = [callers EXCEPT ![g].pc = "stored"]
    /\ UNCHANGED <<resultFrame, mutex, now>>

\* defer r.Unlock(), then the method returns
ResultUnlock(g) ==
    /\ callers[g].pc = "stored"
    /\ mutex' = 0
    /\ callers' = [callers EXCEPT ![g].pc = "returned"]
    /\ UNCHANGED <<resultFrame, result, now>>

\* the clock advances
ClockTick ==
    /\ now < MaxNow
    /\ now' = now + 1
    /\ UNCHANGED <<resultFrame, result, mutex, callers>>

\* no Result is in use
ResultIdle ==
    /\ now = 1
    /\ result = NewResult("none")
    /\ mutex = 0
    /\ callers = [g \in Callers |-> NotCalled]

\* ------------------------------------------------------------- tag filters

Keys == {"env", "team"}
Values == {"prod", "x"}

\* map[string]string: the key-value pairs of a resource (a nil map ranges as
\* an empty one)
KVs == UNION {[S -> Values] : S \in SUBSET Keys}

\* []string: the values a filter rule lists for its key
FilterLists == UNION {[1..n -> Values] : n \in 0..MaxFilterValues}

\* map[string][]string: nil, or a map from keys to lists of values
NilMap == [isNil |-> TRUE, m |-> <<>>]
Filters == {NilMap} \cup {[isNil |-> FALSE, m |-> f] :
                             f \in UNION {[S -> FilterLists] : S \in SUBSET Keys}}

\* the orders in which a range statement can iterate over a map with keys S
Orders(S) == {o \in [1..Cardinality(S) -> S] :
                 \A i, j \in 1..Cardinality(S) : o[i] = o[j] => i = j}

\* mutant: an empty list of filter values matches no value
kvMatchesFilter_EmptyMatchesNothing(key, value, filter) ==
    \E filterKey \in DOMAIN filter.m :
        /\ key = filterKey
        /\ \E i \in 1..Len(filter.m[filterKey]) : value = filter.m[filterKey][i]

\* kvMatchesFilter(key, value, filter): some filterKey equals key and its
\* filterValues are empty or contain value (a nil filter has no keys)
kvMatchesFilter(key, value, filter) ==
    \E filterKey \in DOMAIN filter.m :
        /\ key = filterKey
        /\ \/ Len(filter.m[filterKey]) = 0
           \/ \E i \in 1..Len(filter.m[filterKey]) : value = filter.m[filterKey][i]

\* TagMatchesFilter(key, value, filter)
TagMatchesFilter(key, value, filter) ==
    \E filterKey \in DOMAIN filter.m :
        /\ key = filterKey
        /\ \/ Len(filter.m[filterKey]) = 0
           \/ \E i \in 1..Len(filter.m[filterKey]) : value = filter.m[filterKey][i]

\* mutant: the loop does not stop at the first match, the pair visited last
\* decides
RangeKV_LastDecides(ord, kvs, filter) ==
    IF Len(ord) = 0 THEN FALSE
    ELSE kvMatchesFilter(ord[Len(ord)], kvs[ord[Len(ord)]], filter)

\* for key, value := range kv { if kvMatchesFilter(key, value, filter) {
\*     flag = true; break } }         with the keys visited in order ord:
\* the value of flag after the loop, FALSE before it
RangeKV(ord, kvs, filter) ==
    LET RECURSIVE Loop(_)
        Loop(i) == IF i > Len(ord) THEN FALSE
                   ELSE IF kvMatchesFilter(ord[i], kvs[ord[i]], filter) THEN TRUE
                   ELSE Loop(i + 1)
    IN Loop(1)

\* the same loop of evaluateKubernetesPodLabels, with TagMatchesFilter
RangeLabels(ord, labels, filter) ==
    LET RECURSIVE Loop(_)
        Loop(i) == IF i > Len(ord) THEN FALSE
                   ELSE IF TagMatchesFilter(ord[i], labels[ord[i]], filter) THEN TRUE
                   ELSE Loop(i + 1)
    IN Loop(1)

\* mutant: a resource is not included unless some rule includes it
KVMatchesFilters_NotIncludedByDefault(kvs, incl, excl, ord1, ord2) ==
    LET included == (~incl.isNil) /\ RangeKV(ord1, kvs, incl)
        excluded == (~excl.isNil) /\ RangeKV(ord2, kvs, incl)
    IN included /\ ~excluded

\* mutant: the exclusion filter is not looked at
KVMatchesFilters_IgnoresExclusion(kvs, incl, excl, ord1, ord2) ==
    IF incl.isNil THEN TRUE ELSE RangeKV(ord1, kvs, incl)

\* mutant: an inclusion map without rules is treated as a nil one
KVMatchesFilters_EmptyInclusionAsNil(kvs, incl, excl, ord1, ord2) ==
    LET included == IF incl.isNil \/ DOMAIN incl.m = {} THEN TRUE
                    ELSE RangeKV(ord1, kvs, incl)
        excluded == IF excl.isNil THEN FALSE ELSE RangeKV(ord2, kvs, incl)
    IN included /\ ~excluded

\* KVMatchesFilters(kv, inclusion, exclusion), its two range loops visiting
\* the keys of kv in the orders ord1 and ord2.  The second loop, run when
\* exclusion is not nil, matches against inclusion.
KVMatchesFilters(kvs, incl, excl, ord1, ord2) ==
    LET included == IF incl.isNil THEN TRUE ELSE RangeKV(ord1, kvs, incl)
        excluded == IF excl.isNil THEN FALSE ELSE RangeKV(ord2, kvs, incl)
    IN included /\ ~excluded

\* mutant: the exclusion loop matches against inclusion
evaluateKubernetesPodLabels_ExclusionAgainstInclusion(labels, incl, excl, ord1, ord2) ==
    LET included == IF incl.isNil THEN TRUE ELSE RangeLabels(ord1, labels, incl)
        excluded == IF excl.isNil THEN FALSE ELSE RangeLabels(ord2, labels, incl)
    IN included /\ ~excluded

\* evaluateKubernetesPodLabels(labels, inclusion, exclusion)
evaluateKubernetesPodLabels(labels, incl, excl, ord1, ord2) ==
    LET included == IF incl.isNil THEN TRUE ELSE RangeLabels(ord1, labels, incl)
        excluded == IF excl.isNil THEN FALSE ELSE RangeLabels(ord2, labels, excl)
    IN included /\ ~excluded

\* a caller evaluates utils.KVMatchesFilters(kv, inclusion, exclusion)
CallKVMatchesFilters ==
    /\ filterFn = "none"
    /\ \E ord1 \in Orders(DOMAIN kv) : \E ord2 \in Orders(DOMAIN kv) :
          filterRet' = KVMatchesFilters(kv, inclusion, exclusion, ord1, ord2)
    /\ filterFn' = "KVMatchesFilters"
    /\ UNCHANGED <<filterFrame, kv, inclusion, exclusion>>

\* a caller evaluates evaluateKubernetesPodLabels(kv, inclusion, exclusion)
CallEvaluateKubernetesPodLabels ==
    /\ filterFn = "none"
    /\ \E ord1 \in Orders(DOMAIN kv) : \E ord2 \in Orders(DOMAIN kv) :
          filterRet' = evaluateKubernetesPodLabels(kv, inclusion, exclusion,
                                                   ord1, ord2)
    /\ filterFn' = "evaluateKubernetesPodLabels"
    /\ UNCHANGED <<filterFrame, kv, inclusion, exclusion>>

\* no tag filter is in use
FilterIdle ==
    /\ kv = <<>>
    /\ inclusion = NilMap
    /\ exclusion = NilMap
    /\ filterFn = "none"
    /\ filterRet = FALSE

\* ------------------------------------------------------------- channels

\* results <- r : panics on a closed channel; an unbuffered channel hands r
\* to the receiving consumer; a buffered one blocks while it is full.
ChanSend(r) ==
    IF resultsClosed
    THEN /\ panicked' = "send on closed channel"
         /\ UNCHANGED <<resultsBuf, received>>
    ELSE /\ UNCHANGED panicked
         /\ IF resultsCap = 0
            THEN /\ received' = received (+) SetToBag({r})
                 /\ UNCHANGED resultsBuf
            ELSE /\ Len(resultsBuf) < resultsCap
                 /\ resultsBuf' = Append(resultsBuf, r)
                 /\ UNCHANGED received

\* close(results) : panics on a channel that is already closed.
ChanClose ==
    IF resultsClosed
    THEN panicked' = "close of closed channel" /\ UNCHANGED resultsClosed
    ELSE resultsClosed' = TRUE /\ UNCHANGED panicked

\* wg.Done() on the WaitGroup a runOnce goroutine was given: Run's wg (one-off
\* engine) or its loop's innerWg (continuous engine).  A counter that drops
\* below zero panics.
WgDone(d, ref) ==
    /\ IF ref = "wg"
       THEN wg' = wg - 1 /\ UNCHANGED innerWg
       ELSE innerWg' = [innerWg EXCEPT ![d] = @ - 1] /\ UNCHANGED wg
    /\ panicked' = IF (IF ref = "wg" THEN wg ELSE innerWg[d]) - 1 < 0
                   THEN "sync: negative WaitGroup counter"
                   ELSE panicked

\* ---------------------------------------------------------------- runOnce

\* go runOnce(ctx, wg, discoverer, results): the goroutine starts in its call
\* of discoverer.Discover(ctx).
NewPass(kind, ref) == [kind |-> kind, st |-> "discover", wgOf |-> ref]

\* discoverer.Discover(ctx) returns its *Result.  A blocking discoverer
\* returns only once ctx is done.
RunOnceDiscoverReturn(d, k) ==
    /\ panicked = "none"
    /\ k \in 1..Len(passes[d])
    /\ passes[d][k].st = "discover"
    /\ discoverers[d].blocking => ctxDone
    /\ passes' = [passes EXCEPT ![d][k].st = "send"]
    /\ UNCHANGED <<dataVars, discoverers, ctxDone, resultsCap, chanVars, runPc, runIdx,
                   wg, loopVars, panicked>>

\* mutant: the goroutine drops the Result instead of sending it
RunOnceSend_Drop(d, k) ==
    /\ panicked = "none"
    /\ k \in 1..Len(passes[d])
    /\ passes[d][k].st = "send"
    /\ passes' = [passes EXCEPT ![d][k].st = "deferred"]
    /\ UNCHANGED <<dataVars, discoverers, ctxDone, resultsCap, chanVars, runPc,
                   runIdx, wg, loopVars, panicked>>

\* results <- (the Result Discover returned)
RunOnceSend(d, k) ==
    /\ panicked = "none"
    /\ k \in 1..Len(passes[d])
    /\ passes[d][k].st = "send"
    /\ ChanSend(ResultOf(d, k))
    /\ passes' = [passes EXCEPT ![d][k].st = "deferred"]
    /\ UNCHANGED <<dataVars, discoverers, ctxDone, resultsCap, resultsClosed, runPc,
                   runIdx, wg, loopVars>>

\* mutant: the deferred wg.Done() is missing
RunOnceDone_NoDone(d, k) ==
    /\ panicked = "none"
    /\ k \in 1..Len(passes[d])
    /\ passes[d][k].st = "deferred"
    /\ passes' = [passes EXCEPT ![d][k].st = "exit"]
    /\ UNCHANGED <<dataVars, discoverers, ctxDone, resultsCap, chanVars, runPc, runIdx,
                   wg, loopVars, panicked>>

\* defer wg.Done()
RunOnceDone(d, k) ==
    /\ panicked = "none"
    /\ k \in 1..Len(passes[d])
    /\ passes[d][k].st = "deferred"
    /\ WgDone(d, passes[d][k].wgOf)
    /\ passes' = [passes EXCEPT ![d][k].st = "exit"]
    /\ UNCHANGED <<dataVars, discoverers, ctxDone, resultsCap, chanVars, runPc, runIdx,
                   loopPc, interval, ticker, intervalC, triggerC>>

\* --------------------------------------------------------- the environment

\* the caller cancels ctx
Cancel ==
    /\ panicked = "none"
    /\ ~ctxDone
    /\ ctxDone' = TRUE
    /\ UNCHANGED <<dataVars, discoverers, resultsCap, chanVars, runPc, runIdx, wg,
                   loopVars, passes, panicked>>

\* the consumer receives from a buffered results channel
Receive ==
    /\ panicked = "none"
    /\ Len(resultsBuf) > 0
    /\ received' = received (+) SetToBag({Head(resultsBuf)})
    /\ resultsBuf' = Tail(resultsBuf)
    /\ UNCHANGED <<dataVars, discoverers, ctxDone, resultsCap, resultsClosed, runPc,
                   runIdx, wg, loopVars, passes, panicked>>

\* --------------------------------------------------------- OneOffEngine.Run

\* for _, discoverer := range e.discoverers { wg.Add(1); go runOnce(...) }
OneOffRunLaunch ==
    /\ panicked = "none"
    /\ runPc = "loop"
    /\ runIdx <= N
    /\ wg' = wg + 1
    /\ passes' = [passes EXCEPT ![runIdx] = <<NewPass("oneoff", "wg")>>]
    /\ runIdx' = runIdx + 1
    /\ UNCHANGED <<dataVars, discoverers, ctxDone, resultsCap, chanVars, runPc, loopVars,
                   panicked>>

\* mutant: Run does not join the wait group before closing
OneOffRunWait_NoJoin ==
    /\ panicked = "none"
    /\ runPc = "loop"
    /\ runIdx > N
    /\ runPc' = "close"
    /\ UNCHANGED <<dataVars, discoverers, ctxDone, resultsCap, chanVars, runIdx, wg,
                   loopVars, passes, panicked>>

\* defer wg.Wait(): runs when the loop is over, returns when the counter is 0
OneOffRunWait ==
    /\ panicked = "none"
    /\ runPc = "loop"
    /\ runIdx > N
    /\ wg = 0
    /\ runPc' = "close"
    /\ UNCHANGED <<dataVars, discoverers, ctxDone, resultsCap, chanVars, runIdx, wg,
                   loopVars, passes, panicked>>

\* defer close(results), then Run returns
OneOffRunClose ==
    /\ panicked = "none"
    /\ runPc = "close"
    /\ ChanClose
    /\ runPc' = "returned"
    /\ UNCHANGED <<dataVars, discoverers, ctxDone, resultsCap, resultsBuf, received,
                   runIdx, wg, loopVars, passes>>

\* ------------------------------------------------- one-off specification

OneOffConfigs == [blocking : BOOLEAN]

InitCommon ==
    /\ ctxDone = FALSE
    /\ resultsCap \in 0..MaxCap
    /\ resultsBuf = <<>>
    /\ resultsClosed = FALSE
    /\ received = EmptyBag
    /\ runPc = "loop"
    /\ runIdx = 1
    /\ wg = 0
    /\ innerWg = [d \in Ids |-> 0]
    /\ loopPc = [d \in Ids |-> "idle"]
    /\ ticker = [d \in Ids |-> NoTicker]
    /\ passes = [d \in Ids |-> <<>>]
    /\ panicked = "none"

InitOneOff ==
    /\ InitCommon
    /\ ResultIdle
    /\ FilterIdle
    /\ CompIdle
    /\ \E n \in 0..MaxDiscoverers : discoverers \in [1..n -> OneOffConfigs]
    /\ interval = [d \in Ids |-> 0]
    /\ intervalC = [d \in Ids |-> NilChan]
    /\ triggerC = [d \in Ids |-> NilChan]

RunOncePass(d, k) ==
    \/ RunOnceDiscoverReturn(d, k)
    \/ RunOnceSend(d, k)
    \/ RunOnceDone(d, k)

RunOnceStep(d) == \E k \in 1..MaxPasses : RunOncePass(d, k)

NextOneOff ==
    \/ OneOffRunLaunch
    \/ OneOffRunWait
    \/ OneOffRunClose
    \/ \E d \in Ids : RunOnceStep(d)
    \/ Receive
    \/ Cancel

SpecOneOff == InitOneOff /\ [][NextOneOff]_vars

\* The Go scheduler runs every runnable goroutine, and the consumer keeps
\* receiving; only the cancellation of ctx is left to the caller.
FairOneOff ==
    /\ SpecOneOff
    /\ WF_vars(OneOffRunLaunch \/ OneOffRunWait \/ OneOffRunClose)
    /\ \A d \in Ids : WF_vars(RunOnceStep(d))
    /\ WF_vars(Receive)

\* ------------------------------------------------ claims, one-off engine

\* the Results put on the results channel so far (received or still buffered)
Delivered ==
    LET RECURSIVE BufBag(_)
        BufBag(q) == IF q = <<>> THEN EmptyBag
                     ELSE SetToBag({Head(q)}) (+) BufBag(Tail(q))
    IN received (+) BufBag(resultsBuf)

\* C1: OneOffEngine.Run closes the results channel only after every runOnce
\* goroutine it launched has finished (Discover returned, Result sent,
\* wg.Done run), and no Result is ever sent on the closed channel.
C1_CloseAfterAllFinished ==
    /\ resultsClosed =>
         \A d \in 1..N : Len(passes[d]) = 1 /\ passes[d][1].st = "exit"
    /\ panicked # "send on closed channel"

C1_Witness ==
    /\ resultsClosed
    /\ N = MaxDiscoverers
    /\ \A d \in 1..N : passes[d][1].st = "exit"

\* C2: when the results channel is closed, exactly N Results have been
\* delivered: one per configured discoverer, each the Result that
\* discoverer's single Discover call returned.
C2_ExactlyOnePerDiscoverer ==
    resultsClosed =>
        /\ \A d \in 1..N : Len(passes[d]) = 1
        /\ Delivered = SetToBag({ResultOf(d, 1) : d \in 1..N})
        /\ BagCardinality(Delivered) = N

C2_Witness ==
    /\ resultsClosed
    /\ N = MaxDiscoverers
    /\ BagCardinality(received) = N

\* C3: with a discoverer whose Discover blocks until ctx is cancelled, and
\* a consumer that keeps receiving, after ctx is cancelled Run eventually
\* delivers that discoverer's Result, closes the channel and returns.
C3_CancelLeadsToReturn ==
    (ctxDone /\ \E d \in 1..N : discoverers[d].blocking)
        ~> (/\ runPc = "returned"
            /\ resultsClosed
            /\ \A d \in 1..N : BagIn(ResultOf(d, 1), received))

C3_Witness ==
    /\ runPc = "returned"
    /\ ctxDone
    /\ \E d \in 1..N : discoverers[d].blocking /\ BagIn(ResultOf(d, 1), received)

\* ------------------------------------------------------------ time.Ticker

\* time.NewTicker(v) and ticker.Reset(v): the next tick is due v from now.
\* A tick already waiting in ticker.C stays there (the channel is not
\* drained).  Both panic on a non-positive v.
TickerArm(t, v) == [on |-> TRUE, period |-> v, remaining |-> v, c |-> t.c]

\* one clock unit passes for a ticker: a running ticker whose time is up puts a
\* tick in ticker.C (capacity 1, a tick is dropped when one is waiting) and
\* is due again one period later.
TickerAdvance(t) ==
    IF ~t.on THEN t
    ELSE IF t.remaining > 1 THEN [t EXCEPT !.remaining = @ - 1]
    ELSE [t EXCEPT !.remaining = t.period, !.c = TRUE]

\* one unit of time passes
TimePasses ==
    /\ panicked = "none"
    /\ \E d \in Ids : ticker[d].on
    /\ ticker' = [d \in Ids |-> TickerAdvance(ticker[d])]
    /\ UNCHANGED <<dataVars, discoverers, ctxDone, resultsCap, chanVars, runPc, runIdx,
                   wg, innerWg, loopPc, interval, intervalC, triggerC, passes,
                   panicked>>

\* --------------------------------- the owner of the channels of discoverer d

\* intervalC <- v
SendInterval(d, v) ==
    /\ panicked = "none"
    /\ intervalC[d].st = "open"
    /\ intervalC[d].q = <<>>
    /\ intervalC' = [intervalC EXCEPT ![d].q = <<v>>]
    /\ UNCHANGED <<dataVars, discoverers, ctxDone, resultsCap, chanVars, runPc, runIdx,
                   wg, innerWg, loopPc, interval, ticker, triggerC, passes,
                   panicked>>

\* triggerC <- struct{}{}
SendTrigger(d) ==
    /\ panicked = "none"
    /\ triggerC[d].st = "open"
    /\ triggerC[d].q = <<>>
    /\ triggerC' = [triggerC EXCEPT ![d].q = <<"struct{}{}">>]
    /\ UNCHANGED <<dataVars, discoverers, ctxDone, resultsCap, chanVars, runPc, runIdx,
                   wg, innerWg, loopPc, interval, ticker, intervalC, passes,
                   panicked>>

\* close(intervalC)
CloseIntervalC(d) ==
    /\ panicked = "none"
    /\ intervalC[d].st = "open"
    /\ intervalC[d].q = <<>>
    /\ intervalC' = [intervalC EXCEPT ![d].st = "closed"]
    /\ UNCHANGED <<dataVars, discoverers, ctxDone, resultsCap, chanVars, runPc, runIdx,
                   wg, innerWg, loopPc, interval, ticker, triggerC, passes,
                   panicked>>

\* close(triggerC)
CloseTriggerC(d) ==
    /\ panicked = "none"
    /\ triggerC[d].st = "open"
    /\ triggerC[d].q = <<>>
    /\ triggerC' = [triggerC EXCEPT ![d].st = "closed"]
    /\ UNCHANGED <<dataVars, discoverers, ctxDone, resultsCap, chanVars, runPc, runIdx,
                   wg, innerWg, loopPc, interval, ticker, intervalC, passes,
                   panicked>>

\* -------------------------------------------------------- runContinuously

\* go runOnce(ctx, &innerWg, discoverer, results)
LaunchPass(d, kind) ==
    passes' = [passes EXCEPT ![d] = Append(@, NewPass(kind, "innerWg"))]

\* ticker := time.NewTicker(interval)
LoopNewTicker(d) ==
    /\ panicked = "none"
    /\ loopPc[d] = "start"
    /\ IF interval[d] <= 0
       THEN /\ panicked' = "non-positive interval for NewTicker"
            /\ UNCHANGED <<ticker, loopPc>>
       ELSE /\ ticker' = [ticker EXCEPT ![d] = TickerArm(@, interval[d])]
            /\ loopPc' = [loopPc EXCEPT ![d] = "initial"]
            /\ UNCHANGED panicked
    /\ UNCHANGED <<dataVars, discoverers, ctxDone, resultsCap, chanVars, runPc, runIdx,
                   wg, innerWg, interval, intervalC, triggerC, passes>>

\* mutant: the loop starts selecting without launching the initial pass
LoopInitialPass_WaitsForTick(d) ==
    /\ panicked = "none"
    /\ loopPc[d] = "initial"
    /\ loopPc' = [loopPc EXCEPT ![d] = "select"]
    /\ UNCHANGED <<dataVars, discoverers, ctxDone, resultsCap, chanVars, runPc, runIdx,
                   wg, innerWg, interval, ticker, intervalC, triggerC, passes,
                   panicked>>

\* innerWg.Add(1); go runOnce(...): the initial pass
LoopInitialPass(d) ==
    /\ panicked = "none"
    /\ loopPc[d] = "initial"
    /\ innerWg' = [innerWg EXCEPT ![d] = @ + 1]
    /\ LaunchPass(d, "initial")
    /\ loopPc' = [loopPc EXCEPT ![d] = "select"]
    /\ UNCHANGED <<dataVars, discoverers, ctxDone, resultsCap, chanVars, runPc, runIdx,
                   wg, interval, ticker, intervalC, triggerC, panicked>>

\* case <-ctx.Done(): return
LoopCtxDone(d) ==
    /\ panicked = "none"
    /\ loopPc[d] = "select"
    /\ ctxDone
    /\ loopPc' = [loopPc EXCEPT ![d] = "return"]
    /\ UNCHANGED <<dataVars, discoverers, ctxDone, resultsCap, chanVars, runPc, runIdx,
                   wg, innerWg, interval, ticker, intervalC, triggerC, passes,
                   panicked>>

\* mutant: an interval update also runs the discoverer, as a trigger does
LoopIntervalUpdate_FiresPass(d) ==
    /\ panicked = "none"
    /\ loopPc[d] = "select"
    /\ intervalC[d].q # <<>>
    /\ TotalPasses < MaxPasses
    /\ intervalC' = [intervalC EXCEPT ![d].q = <<>>]
    /\ interval' = [interval EXCEPT ![d] = Head(intervalC[d].q)]
    /\ ticker' = [ticker EXCEPT ![d] = [on |-> TRUE, period |-> interval'[d],
                                        remaining |-> interval'[d], c |-> @.c]]
    /\ innerWg' = [innerWg EXCEPT ![d] = @ + 1]
    /\ passes' = [passes EXCEPT ![d] = Append(@, NewPass("tick", "innerWg"))]
    /\ UNCHANGED <<dataVars, discoverers, ctxDone, resultsCap, chanVars, runPc, runIdx,
                   wg, loopPc, triggerC, panicked>>

\* mutant: the loops share one interval and reset every ticker
LoopIntervalUpdate_SharedInterval(d) ==
    /\ panicked = "none"
    /\ loopPc[d] = "select"
    /\ intervalC[d].q # <<>>
    /\ intervalC' = [intervalC EXCEPT ![d].q = <<>>]
    /\ interval' = [e \in Ids |-> Head(intervalC[d].q)]
    /\ ticker' = [e \in Ids |-> IF ticker[e].on
                                  THEN TickerArm(ticker[e], interval'[e])
                                  ELSE ticker[e]]
    /\ UNCHANGED <<dataVars, discoverers, ctxDone, resultsCap, chanVars, runPc, runIdx,
                   wg, innerWg, loopPc, triggerC, passes, panicked>>

\* case newInterval, ok := <-intervalC, ok = true:
\*     interval = newInterval; ticker.Reset(interval)
LoopIntervalUpdate(d) ==
    /\ panicked = "none"
    /\ loopPc[d] = "select"
    /\ intervalC[d].q # <<>>
    /\ intervalC' = [intervalC EXCEPT ![d].q = <<>>]
    /\ interval' = [interval EXCEPT ![d] = Head(intervalC[d].q)]
    /\ IF interval'[d] <= 0
       THEN /\ panicked' = "non-positive interval for Ticker.Reset"
            /\ UNCHANGED ticker
       ELSE /\ ticker' = [ticker EXCEPT ![d] = TickerArm(@, interval'[d])]
            /\ UNCHANGED panicked
    /\ UNCHANGED <<dataVars, discoverers, ctxDone, resultsCap, chanVars, runPc, runIdx,
                   wg, innerWg, loopPc, triggerC, passes>>

\* case newInterval, ok := <-intervalC, ok = false (the channel is closed)
LoopIntervalClosed(d) ==
    /\ panicked = "none"
    /\ loopPc[d] = "select"
    /\ intervalC[d].st = "closed"
    /\ UNCHANGED vars

\* mutant: a trigger launches its pass without resetting the ticker
LoopTrigger_NoReset(d) ==
    /\ panicked = "none"
    /\ loopPc[d] = "select"
    /\ triggerC[d].q # <<>>
    /\ TotalPasses < MaxPasses
    /\ triggerC' = [triggerC EXCEPT ![d].q = <<>>]
    /\ passes' = [passes EXCEPT ![d] = Append(@, NewPass("trigger", "innerWg"))]
    /\ UNCHANGED <<dataVars, discoverers, ctxDone, resultsCap, chanVars, runPc, runIdx,
                   wg, innerWg, loopPc, interval, ticker, intervalC, panicked>>

\* case _, ok := <-triggerC, ok = true:
\*     ticker.Reset(interval); go runOnce(...)      (no innerWg.Add(1))
LoopTrigger(d) ==
    /\ panicked = "none"
    /\ loopPc[d] = "select"
    /\ triggerC[d].q # <<>>
    /\ TotalPasses < MaxPasses
    /\ triggerC' = [triggerC EXCEPT ![d].q = <<>>]
    /\ ticker' = [ticker EXCEPT ![d] = TickerArm(@, interval[d])]
    /\ LaunchPass(d, "trigger")
    /\ UNCHANGED <<dataVars, discoverers, ctxDone, resultsCap, chanVars, runPc, runIdx,
                   wg, innerWg, loopPc, interval, intervalC, panicked>>

\* mutant: a receive from a nil trigger channel is ready, as from a closed one
LoopTriggerClosed_NilReady(d) ==
    /\ panicked = "none"
    /\ loopPc[d] = "select"
    /\ triggerC[d].st # "open"
    /\ UNCHANGED vars

\* mutant: the `if ok` is missing, a receive from the closed trigger channel
\* resets the ticker and launches a pass
LoopTriggerClosed_AsMessage(d) ==
    /\ panicked = "none"
    /\ loopPc[d] = "select"
    /\ triggerC[d].st = "closed"
    /\ TotalPasses < MaxPasses
    /\ ticker' = [ticker EXCEPT ![d] = TickerArm(@, interval[d])]
    /\ passes' = [passes EXCEPT ![d] = Append(@, NewPass("trigger", "innerWg"))]
    /\ UNCHANGED <<dataVars, discoverers, ctxDone, resultsCap, chanVars, runPc, runIdx,
                   wg, innerWg, loopPc, interval, intervalC, triggerC, panicked>>

\* case _, ok := <-triggerC, ok = false (the channel is closed)
LoopTriggerClosed(d) ==
    /\ panicked = "none"
    /\ loopPc[d] = "select"
    /\ triggerC[d].st = "closed"
    /\ UNCHANGED vars

\* mutant: the loop keeps serving ticks while it waits for its passes to drain
LoopTick_WhileDraining(d) ==
    /\ panicked = "none"
    /\ loopPc[d] \in {"select", "return"}
    /\ ticker[d].c
    /\ TotalPasses < MaxPasses
    /\ ticker' = [ticker EXCEPT ![d].c = FALSE]
    /\ innerWg' = [innerWg EXCEPT ![d] = @ + 1]
    /\ passes' = [passes EXCEPT ![d] = Append(@, NewPass("tick", "innerWg"))]
    /\ UNCHANGED <<dataVars, discoverers, ctxDone, resultsCap, chanVars, runPc, runIdx,
                   wg, loopPc, interval, intervalC, triggerC, panicked>>

\* mutant: skip-if-busy, a tick launches no pass while one is in flight
LoopTick_SkipIfBusy(d) ==
    /\ panicked = "none"
    /\ loopPc[d] = "select"
    /\ ticker[d].c
    /\ TotalPasses < MaxPasses
    /\ ticker' = [ticker EXCEPT ![d].c = FALSE]
    /\ IF \A k \in 1..Len(passes[d]) : passes[d][k].st = "exit"
       THEN /\ innerWg' = [innerWg EXCEPT ![d] = @ + 1]
            /\ passes' = [passes EXCEPT ![d] = Append(@, NewPass("tick", "innerWg"))]
       ELSE UNCHANGED <<innerWg, passes>>
    /\ UNCHANGED <<dataVars, discoverers, ctxDone, resultsCap, chanVars, runPc, runIdx,
                   wg, loopPc, interval, intervalC, triggerC, panicked>>

\* case <-ticker.C: innerWg.Add(1); go runOnce(...)
LoopTick(d) ==
    /\ panicked = "none"
    /\ loopPc[d] = "select"
    /\ ticker[d].c
    /\ TotalPasses < MaxPasses
    /\ ticker' = [ticker EXCEPT ![d].c = FALSE]
    /\ innerWg' = [innerWg EXCEPT ![d] = @ + 1]
    /\ LaunchPass(d, "tick")
    /\ UNCHANGED <<dataVars, discoverers, ctxDone, resultsCap, chanVars, runPc, runIdx,
                   wg, loopPc, interval, intervalC, triggerC, panicked>>

\* defer innerWg.Wait(): returns when the counter is 0
LoopInnerWait(d) ==
    /\ panicked = "none"
    /\ loopPc[d] = "return"
    /\ innerWg[d] = 0
    /\ loopPc' = [loopPc EXCEPT ![d] = "stop"]
    /\ UNCHANGED <<dataVars, discoverers, ctxDone, resultsCap, chanVars, runPc, runIdx,
                   wg, innerWg, interval, ticker, intervalC, triggerC, passes,
                   panicked>>

\* defer ticker.Stop(); defer wg.Done()
LoopExit(d) ==
    /\ panicked = "none"
    /\ loopPc[d] = "stop"
    /\ ticker' = [ticker EXCEPT ![d].on = FALSE]
    /\ wg' = wg - 1
    /\ panicked' = IF wg - 1 < 0 THEN "sync: negative WaitGroup counter" ELSE panicked
    /\ loopPc' = [loopPc EXCEPT ![d] = "exit"]
    /\ UNCHANGED <<dataVars, discoverers, ctxDone, resultsCap, chanVars, runPc, runIdx,
                   innerWg, interval, intervalC, triggerC, passes>>

\* ----------------------------------------------------- ContinuousEngine.Run

\* for _, discoverer := range cd.discoverers { wg.Add(1); go runContinuously(...) }
ContRunLaunch ==
    /\ panicked = "none"
    /\ runPc = "loop"
    /\ runIdx <= N
    /\ wg' = wg + 1
    /\ loopPc' = [loopPc EXCEPT ![runIdx] = "start"]
    /\ interval' = [interval EXCEPT ![runIdx] = discoverers[runIdx].interval]
    /\ runIdx' = runIdx + 1
    /\ UNCHANGED <<dataVars, discoverers, ctxDone, resultsCap, chanVars, runPc, innerWg,
                   ticker, intervalC, triggerC, passes, panicked>>

\* defer wg.Wait()
ContRunWait ==
    /\ panicked = "none"
    /\ runPc = "loop"
    /\ runIdx > N
    /\ wg = 0
    /\ runPc' = "close"
    /\ UNCHANGED <<dataVars, discoverers, ctxDone, resultsCap, chanVars, runIdx, wg,
                   loopVars, passes, panicked>>

\* defer close(results), then Run returns
ContRunClose ==
    /\ panicked = "none"
    /\ runPc = "close"
    /\ ChanClose
    /\ runPc' = "returned"
    /\ UNCHANGED <<dataVars, discoverers, ctxDone, resultsCap, resultsBuf, received,
                   runIdx, wg, loopVars, passes>>

\* ------------------------------------------------ continuous specification

\* positive durations
Intervals == 1..MaxInterval

\* WithDiscoverer(discoverer, opts...): interval, intervalC and triggerC as
\* the options left them (nil channels by default)
ContConfigs(ivals, chans) ==
    [blocking : {FALSE}, interval : ivals, intervalC : chans, triggerC : chans]

InitContWith(n, ivals, chans) ==
    /\ InitCommon
    /\ ResultIdle
    /\ FilterIdle
    /\ CompIdle
    /\ discoverers \in [1..n -> ContConfigs(ivals, chans)]
    /\ interval = [d \in Ids |-> 0]
    /\ intervalC = [d \in Ids |-> IF d <= n THEN discoverers[d].intervalC ELSE NilChan]
    /\ triggerC = [d \in Ids |-> IF d <= n THEN discoverers[d].triggerC ELSE NilChan]

InitCont == \E n \in 0..MaxLoops : InitContWith(n, Intervals, {NilChan, OpenChan})

LoopStep(d) ==
    \/ LoopNewTicker(d)
    \/ LoopInitialPass(d)
    \/ LoopCtxDone(d)
    \/ LoopIntervalUpdate(d)
    \/ LoopIntervalClosed(d)
    \/ LoopTrigger(d)
    \/ LoopTriggerClosed(d)
    \/ LoopTick(d)
    \/ LoopInnerWait(d)
    \/ LoopExit(d)

OwnerStep(d) ==
    \/ \E v \in Intervals : SendInterval(d, v)
    \/ SendTrigger(d)
    \/ CloseIntervalC(d)
    \/ CloseTriggerC(d)

NextCont ==
    \/ ContRunLaunch
    \/ ContRunWait
    \/ ContRunClose
    \/ \E d \in Ids : LoopStep(d)
    \/ \E d \in Ids : RunOnceStep(d)
    \/ \E d \in Ids : OwnerStep(d)
    \/ TimePasses
    \/ Receive
    \/ Cancel

SpecCont == InitCont /\ [][NextCont]_vars

\* Go's scheduler runs every runnable goroutine, select takes a ready
\* ctx.Done() case sooner or later, every Discover call returns and the
\* consumer keeps receiving.  The clock, the channels' owner and the
\* cancellation of ctx are left free.
FairCont ==
    /\ SpecCont
    /\ WF_vars(ContRunLaunch \/ ContRunWait \/ ContRunClose)
    /\ \A d \in Ids :
          /\ WF_vars(LoopNewTicker(d) \/ LoopInitialPass(d))
          /\ WF_vars(LoopCtxDone(d))
          /\ WF_vars(LoopInnerWait(d) \/ LoopExit(d))
          /\ \A k \in 1..MaxPasses : WF_vars(RunOncePass(d, k))
    /\ WF_vars(Receive)

\* --------------------------------------------- claims, continuous engine

\* what a step of loop d takes out of a channel
ConsumesTick(d) == ticker[d].c /\ ~ticker'[d].c
ConsumesInterval(d) == intervalC[d].q # <<>> /\ intervalC'[d].q = <<>>
ConsumesTrigger(d) == triggerC[d].q # <<>> /\ triggerC'[d].q = <<>>

InFlight(d) == {k \in 1..Len(passes[d]) : passes[d][k].st \in {"discover", "send"}}

\* C4: the results channel is never closed, and ContinuousEngine.Run has
\* never returned, in a state where ctx has not been cancelled, whatever
\* discoverers the engine is configured with.
C4_ClosedOnlyWhenCtxDone ==
    (resultsClosed \/ runPc = "returned") => ctxDone

\* C5: once ctx is done, with every Discover call returning and the
\* consumer draining the channel, ContinuousEngine.Run eventually returns
\* with the results channel closed exactly once.
C5_CtxDoneLeadsToReturn ==
    ctxDone ~> (runPc = "returned" /\ resultsClosed /\ panicked = "none")

\* C6: every pass launched (initial, ticker or trigger) has delivered its
\* Result before Run closes the results channel, and no pass sends on the
\* closed channel.
C6_AllPassesDeliveredBeforeClose ==
    /\ resultsClosed => \A d \in Ids : InFlight(d) = {}
    /\ panicked # "send on closed channel"

\* C7: the first pass of a discoverer's loop is the initial pass, launched
\* without consuming a tick, and no tick, interval update or trigger is
\* consumed by the loop before it.
C7_InitialPassFirst ==
    [][\A d \in Ids :
          /\ (ConsumesTick(d) \/ ConsumesInterval(d) \/ ConsumesTrigger(d))
                => (Len(passes[d]) >= 1 /\ passes[d][1].kind = "initial")
          /\ (Len(passes[d]) = 0 /\ Len(passes'[d]) > 0)
                => /\ passes'[d][1].kind = "initial"
                   /\ ticker'[d].c = ticker[d].c
                   /\ intervalC' = intervalC
                   /\ triggerC' = triggerC]_vars

C7_Witness ==
    \E d \in 1..N :
        /\ Len(passes[d]) >= 2
        /\ passes[d][1].kind = "initial"
        /\ passes[d][2].kind = "tick"

C9_NoTickPassWithinInterval ==
    [][\A d \in Ids :
          ConsumesTrigger(d) =>
              /\ Len(passes'[d]) = Len(passes[d]) + 1
              /\ ticker'[d].remaining = interval[d]
              /\ ~ticker'[d].c]_vars

\* C9, amended: the step that receives a trigger launches exactly one pass
\* and resets the ticker to the current interval, so that the ticker's next
\* fire is due one full interval after the trigger (a tick that had already
\* fired and waits in ticker.C is left there).
C9_TriggerLaunchesOneAndResets ==
    [][\A d \in Ids :
          ConsumesTrigger(d) =>
              /\ Len(passes'[d]) = Len(passes[d]) + 1
              /\ passes'[d][Len(passes'[d])].st = "discover"
              /\ \A e \in Ids \ {d} : passes'[e] = passes[e]
              /\ interval' = interval
              /\ ticker'[d].on
              /\ ticker'[d].period = interval[d]
              /\ ticker'[d].remaining = interval[d]
              /\ ticker'[d].c = ticker[d].c]_vars

C9_Witness ==
    \E d \in 1..N : \E k \in 1..Len(passes[d]) :
        /\ passes[d][k].kind = "trigger"
        /\ passes[d][k].st = "discover"
        /\ ticker[d].remaining = interval[d]
        /\ interval[d] = MaxInterval

\* C10: a tick or a trigger taken by the loop launches a new pass whether
\* or not earlier passes of the discoverer are still running, and the loop
\* is never held back by a running pass.
C10_NoMutualExclusion ==
    /\ [](\A d \in Ids :
             (panicked = "none" /\ loopPc[d] = "select" /\ TotalPasses < MaxPasses)
                => /\ ticker[d].c => ENABLED LoopTick(d)
                   /\ triggerC[d].q # <<>> => ENABLED LoopTrigger(d))
    /\ [][\A d \in Ids :
             (ConsumesTick(d) \/ ConsumesTrigger(d))
                => Len(passes'[d]) = Len(passes[d]) + 1]_vars

C10_Witness ==
    \E d \in 1..N :
        /\ Len(passes[d]) >= 2
        /\ passes[d][1].st = "discover"
        /\ passes[d][2].st = "discover"
        /\ passes[d][2].kind = "tick"

\* ------------------------------- runContinuously, the ticker-only variant
\* (engines/common.go: no interval-update channel, no trigger channel)

\* ticker := time.NewTicker(interval)
TickerLoopNewTicker(d) ==
    /\ panicked = "none"
    /\ loopPc[d] = "start"
    /\ IF interval[d] <= 0
       THEN /\ panicked' = "non-positive interval for NewTicker"
            /\ UNCHANGED <<ticker, loopPc>>
       ELSE /\ ticker' = [ticker EXCEPT ![d] = TickerArm(@, interval[d])]
            /\ loopPc' = [loopPc EXCEPT ![d] = "initial"]
            /\ UNCHANGED panicked
    /\ UNCHANGED <<dataVars, discoverers, ctxDone, resultsCap, chanVars, runPc, runIdx,
                   wg, innerWg, interval, intervalC, triggerC, passes>>

\* innerWg.Add(1); go runOnce(ctx, &innerWg, discoverer, results)
TickerLoopInitialPass(d) ==
    /\ panicked = "none"
    /\ loopPc[d] = "initial"
    /\ innerWg' = [innerWg EXCEPT ![d] = @ + 1]
    /\ passes' = [passes EXCEPT ![d] = Append(@, NewPass("initial", "innerWg"))]
    /\ loopPc' = [loopPc EXCEPT ![d] = "select"]
    /\ UNCHANGED <<dataVars, discoverers, ctxDone, resultsCap, chanVars, runPc, runIdx,
                   wg, interval, ticker, intervalC, triggerC, panicked>>

\* case <-ctx.Done(): return
TickerLoopCtxDone(d) ==
    /\ panicked = "none"
    /\ loopPc[d] = "select"
    /\ ctxDone
    /\ loopPc' = [loopPc EXCEPT ![d] = "return"]
    /\ UNCHANGED <<dataVars, discoverers, ctxDone, resultsCap, chanVars, runPc, runIdx,
                   wg, innerWg, interval, ticker, intervalC, triggerC, passes,
                   panicked>>

\* case <-ticker.C: innerWg.Add(1); go runOnce(...)
TickerLoopTick(d) ==
    /\ panicked = "none"
    /\ loopPc[d] = "select"
    /\ ticker[d].c
    /\ TotalPasses < MaxPasses
    /\ ticker' = [ticker EXCEPT ![d].c = FALSE]
    /\ innerWg' = [innerWg EXCEPT ![d] = @ + 1]
    /\ passes' = [passes EXCEPT ![d] = Append(@, NewPass("tick", "innerWg"))]
    /\ UNCHANGED <<dataVars, discoverers, ctxDone, resultsCap, chanVars, runPc, runIdx,
                   wg, loopPc, interval, intervalC, triggerC, panicked>>

\* defer innerWg.Wait()
TickerLoopInnerWait(d) ==
    /\ panicked = "none"
    /\ loopPc[d] = "return"
    /\ innerWg[d] = 0
    /\ loopPc' = [loopPc EXCEPT ![d] = "stop"]
    /\ UNCHANGED <<dataVars, discoverers, ctxDone, resultsCap, chanVars, runPc, runIdx,
                   wg, innerWg, interval, ticker, intervalC, triggerC, passes,
                   panicked>>

\* defer ticker.Stop(); defer wg.Done()
TickerLoopExit(d) ==
    /\ panicked = "none"
    /\ loopPc[d] = "stop"
    /\ ticker' = [ticker EXCEPT ![d].on = FALSE]
    /\ wg' = wg - 1
    /\ panicked' = IF wg - 1 < 0 THEN "sync: negative WaitGroup counter" ELSE panicked
    /\ loopPc' = [loopPc EXCEPT ![d] = "exit"]
    /\ UNCHANGED <<dataVars, discoverers, ctxDone, resultsCap, chanVars, runPc, runIdx,
                   innerWg, interval, intervalC, triggerC, passes>>

TickerLoopStep(d) ==
    \/ TickerLoopNewTicker(d)
    \/ TickerLoopInitialPass(d)
    \/ TickerLoopCtxDone(d)
    \/ TickerLoopTick(d)
    \/ TickerLoopInnerWait(d)
    \/ TickerLoopExit(d)

\* -------------------- continuous engine whose discoverers have nil channels

\* WithDiscoverer(discoverer) without WithIntervalChannel / WithTriggerChannel
\* leaves intervalC and triggerC nil
InitNilChans ==
    \E n \in 0..MaxDiscoverers : InitContWith(n, Intervals, {NilChan})

\* the cases of the three-channel loop that do not receive from intervalC or
\* triggerC
NilChanLoopStep(d) ==
    \/ LoopNewTicker(d)
    \/ LoopInitialPass(d)
    \/ LoopCtxDone(d)
    \/ LoopTick(d)
    \/ LoopInnerWait(d)
    \/ LoopExit(d)

\* Every discoverer's goroutine may take the steps of the three-channel loop
\* and the steps of the ticker-only loop.
NextNilChans ==
    \/ ContRunLaunch
    \/ ContRunWait
    \/ ContRunClose
    \/ \E d \in Ids : NilChanLoopStep(d)
    \/ \E d \in Ids : TickerLoopStep(d)
    \/ \E d \in Ids : RunOnceStep(d)
    \/ TimePasses
    \/ Receive
    \/ Cancel

SpecNilChans == InitNilChans /\ [][NextNilChans]_vars

\* C11: with nil interval-update and trigger channels the receives from them
\* are never ready, every step the three-channel loop can take is a step of
\* the ticker-only loop and the other way round, and nothing panics.
C11_NilChannelsAsTickerOnly ==
    /\ [](\A d \in Ids :
             /\ ~ENABLED LoopIntervalUpdate(d)
             /\ ~ENABLED LoopIntervalClosed(d)
             /\ ~ENABLED LoopTrigger(d)
             /\ ~ENABLED LoopTriggerClosed(d))
    /\ [][\A d \in Ids : LoopStep(d) <=> TickerLoopStep(d)]_vars
    /\ [](panicked = "none")

C11_Witness ==
    /\ N = MaxDiscoverers
    /\ \A d \in 1..N :
          /\ intervalC[d] = NilChan
          /\ triggerC[d] = NilChan
          /\ loopPc[d] = "exit"
    /\ \E d \in 1..N :
          /\ Len(passes[d]) >= 2
          /\ passes[d][1].kind = "initial"
          /\ passes[d][2].kind = "tick"

\* -------------------------------- claims, continuous engine (continued)

\* C12, as claimed: once ctx is done no loop launches a new pass: every step
\* that adds a pass to a discoverer starts in a state where ctx is not
\* cancelled.
C12_NoLaunchAfterCtxDone ==
    [][\A d \in Ids : Len(passes'[d]) > Len(passes[d]) => ~ctxDone]_vars

\* C12, amended: once a discoverer's loop has taken its ctx.Done() case it
\* launches no new pass, whatever ticks or triggers are waiting; a pass is
\* only ever launched by a loop that has not yet taken that case.
C12_NoLaunchAfterLoopSawCtxDone ==
    [][\A d \in Ids :
          /\ Len(passes'[d]) > Len(passes[d]) => loopPc[d] \in {"initial", "select"}
          /\ loopPc[d] \in {"return", "stop", "exit"} =>
                /\ Len(passes'[d]) = Len(passes[d])
                /\ loopPc'[d] \in {"return", "stop", "exit"}]_vars

C12_Witness ==
    \E d \in 1..N :
        /\ ctxDone
        /\ loopPc[d] = "return"
        /\ ticker[d].c
        /\ triggerC[d].q # <<>>
        /\ InFlight(d) # {}
        /\ TotalPasses < MaxPasses

\* the passes that have gone past their send statement
Forwarded == {dk \in Ids \X (1..MaxPasses) :
                 /\ dk[2] <= Len(passes[dk[1]])
                 /\ passes[dk[1]][dk[2]].st \in {"deferred", "exit"}}

\* C13: at every point the Results put on the results channel are exactly
\* the Results of the passes that have gone past their send, one copy of
\* each: none is dropped, duplicated or replaced by another value.
C13_OneResultPerPass ==
    /\ \A d \in Ids : \A k \in 1..Len(passes[d]) :
          CopiesIn(ResultOf(d, k), Delivered) =
              IF <<d, k>> \in Forwarded THEN 1 ELSE 0
    /\ BagToSet(Delivered) \subseteq {ResultOf(dk[1], dk[2]) : dk \in Forwarded}
    /\ BagCardinality(Delivered) = Cardinality(Forwarded)

\* ------------------------------------------------ specification of Result

\* no engine is running
EngineIdle ==
    /\ InitCommon
    /\ resultsCap = 0
    /\ discoverers = <<>>
    /\ interval = [d \in Ids |-> 0]
    /\ intervalC = [d \in Ids |-> NilChan]
    /\ triggerC = [d \in Ids |-> NilChan]

\* r := NewResult(id), then MaxCallers goroutines are handed r
InitResult ==
    /\ EngineIdle
    /\ FilterIdle
    /\ CompIdle
    /\ now = 1
    /\ result = NewResult("discoverer")
    /\ mutex = 0
    /\ callers = [g \in Callers |-> NotCalled]

CallerStep(g) ==
    \/ \E op \in Methods : ResultLock(g, op)
    \/ ResultLoad(g)
    \/ ResultStore(g)
    \/ ResultUnlock(g)

NextResult ==
    \/ \E g \in Callers : CallerStep(g)
    \/ ClockTick

SpecResult == InitResult /\ [][NextResult]_vars

\* --------------------------------------------------------- claims, Result

\* the goroutines whose call of method op has done its assignment
StoredBy(op) == {g \in Callers : callers[g].op = op
                                  /\ callers[g].pc \in {"stored", "returned"}}

Occurrences(x, q) == Cardinality({i \in 1..Len(q) : q[i] = x})

\* C14: whatever the interleaving of the goroutines calling AddResources on
\* one Result, its Resources hold exactly one copy of the resource of every
\* call that has appended, and nothing else: N finished calls leave N
\* resources.
C14_NoLostAppend ==
    /\ \A g \in Callers :
          Occurrences(ArgOf(g), result.Resources) =
              IF g \in StoredBy("AddResources") THEN 1 ELSE 0
    /\ Len(result.Resources) = Cardinality(StoredBy("AddResources"))

C14_Witness ==
    /\ \A g \in Callers : callers[g].op = "AddResources" /\ callers[g].pc = "returned"
    /\ Len(result.Resources) = MaxCallers
    /\ result.Resources[1] = ArgOf(MaxCallers)

\* C15: the end timestamp of a Result is zero unless a call of Done has
\* assigned it: calls of AddResources, AddError and AddWarning leave it zero.
C15_EndUnsetUntilDone ==
    /\ result.Metadata.EndedAt # ZeroTime => StoredBy("Done") # {}
    /\ (\A g \in Callers : callers[g].op # "Done") =>
           result.Metadata.EndedAt = ZeroTime

C15_Witness ==
    /\ \A g \in Callers : callers[g].pc = "returned"
    /\ StoredBy("AddResources") # {}
    /\ StoredBy("AddError") # {}
    /\ StoredBy("AddWarning") # {}
    /\ now = MaxNow
    /\ result.Metadata.EndedAt = ZeroTime

\* C16: the assignment of a call of Done sets the end timestamp to the time
\* that call read and changes nothing else of the Result, whether or not
\* Done was called before; from the moment a call of Done holds the lock
\* until it returns no other step changes the Result; and the end timestamp
\* changes in no other step, so it is that of the last Done.
C16_DoneChangesOnlyEndedAt ==
    [][/\ \A g \in Callers :
             (callers[g].op = "Done" /\ callers[g].pc # "returned") =>
                 \/ result' = result
                 \/ /\ callers[g].pc = "loaded"
                    /\ callers'[g].pc = "stored"
                    /\ result' = [result EXCEPT !.Metadata.EndedAt = callers[g].local]
       /\ result'.Metadata.EndedAt # result.Metadata.EndedAt =>
             \E g \in Callers :
                 /\ callers[g].op = "Done"
                 /\ callers[g].pc = "loaded"
                 /\ callers'[g].pc = "stored"
       /\ \A g \in Callers :
             (callers[g].op = "Done" /\ callers[g].pc = "loaded"
                                     /\ callers'[g].pc = "stored") =>
                 result'.Metadata.EndedAt = callers[g].local]_vars

C16_Witness ==
    \E g, h \in Callers :
        /\ g # h
        /\ callers[g].op = "Done" /\ callers[g].pc = "returned"
        /\ callers[h].op = "Done" /\ callers[h].pc = "returned"
        /\ callers[g].local < callers[h].local
        /\ result.Metadata.EndedAt = callers[h].local
        /\ Len(result.Resources) = 1
        /\ result.Metadata.StartedAt = 1

\* ------------------------------------------ specification of the tag filters

\* a tag filter is about to be called with any key-value pairs and filters
InitFilter ==
    /\ EngineIdle
    /\ ResultIdle
    /\ CompIdle
    /\ kv \in KVs
    /\ inclusion \in Filters
    /\ exclusion \in Filters
    /\ filterFn = "none"
    /\ filterRet = FALSE

NextFilter ==
    \/ CallKVMatchesFilters
    \/ CallEvaluateKubernetesPodLabels

SpecFilter == InitFilter /\ [][NextFilter]_vars

\* ---------------------------------------------------- claims, tag filters

\* the reference reading of a rule: filter f has key k, with an empty list
\* of values or one that contains v
RuleMatches(k, v, f) ==
    /\ ~f.isNil
    /\ k \in DOMAIN f.m
    /\ f.m[k] = <<>> \/ v \in {f.m[k][i] : i \in 1..Len(f.m[k])}

\* some pair of kv matches some rule of f
MatchesSomeRule(f) == \E k \in DOMAIN kv : RuleMatches(k, kv[k], f)

RefIncluded == inclusion.isNil \/ MatchesSomeRule(inclusion)
RefExcluded == ~exclusion.isNil /\ MatchesSomeRule(exclusion)

\* C17: when the inclusion and the exclusion filter are both nil, the tag
\* filter (KVMatchesFilters, evaluateKubernetesPodLabels) returns true for
\* every key-value set.
C17_NilFiltersAcceptAll ==
    (filterFn # "none" /\ inclusion.isNil /\ exclusion.isNil) => filterRet = TRUE

C17_Witness ==
    /\ filterFn = "KVMatchesFilters"
    /\ inclusion.isNil
    /\ exclusion.isNil
    /\ DOMAIN kv = Keys
    /\ filterRet = TRUE

\* C18: when the inclusion filter maps a key K to the empty list and the
\* exclusion filter is nil, the tag filter returns true for every key-value
\* set that has key K, whatever K's value, the set's other keys and the
\* other rules of the inclusion filter.
C18_EmptyListIncludesAnyValue ==
    (/\ filterFn # "none"
     /\ exclusion.isNil
     /\ \E K \in DOMAIN kv : ~inclusion.isNil /\ K \in DOMAIN inclusion.m
                             /\ inclusion.m[K] = <<>>)
        => filterRet = TRUE

C18_Witness ==
    /\ filterFn = "KVMatchesFilters"
    /\ exclusion.isNil
    /\ ~inclusion.isNil
    /\ DOMAIN inclusion.m = Keys
    /\ inclusion.m["env"] = <<>>
    /\ inclusion.m["team"] = <<"prod">>
    /\ DOMAIN kv = Keys
    /\ kv["env"] = "x"
    /\ kv["team"] = "x"
    /\ filterRet = TRUE

\* C19: for every key-value set of which some pair matches a rule of the
\* inclusion filter and some pair matches a rule of the exclusion filter,
\* the tag filter returns false.
C19_ExclusionWins ==
    (/\ filterFn # "none"
     /\ MatchesSomeRule(inclusion)
     /\ MatchesSomeRule(exclusion))
        => filterRet = FALSE

\* inclusion {env: [prod]}, exclusion {team: []}, tags {env: prod, team: x}
C19_Witness ==
    /\ filterFn = "KVMatchesFilters"
    /\ ~inclusion.isNil /\ DOMAIN inclusion.m = {"env"}
    /\ inclusion.m["env"] = <<"prod">>
    /\ ~exclusion.isNil /\ DOMAIN exclusion.m = {"team"}
    /\ exclusion.m["team"] = <<>>
    /\ DOMAIN kv = Keys
    /\ kv["env"] = "prod"
    /\ kv["team"] = "x"
    /\ filterRet = FALSE

\* C20: KVMatchesFilters(kv, inclusion, exclusion) returns the reference
\* decision included AND NOT excluded, where included = inclusion is nil or
\* some pair of kv matches a rule of inclusion, and excluded = exclusion is
\* not nil and some pair of kv matches a rule of exclusion.
C20_KVMatchesFiltersIsReference ==
    filterFn = "KVMatchesFilters" => filterRet = (RefIncluded /\ ~RefExcluded)

\* --------------------------------------------- MultipleUpstreamDiscoverer
\* (discoverers package, the variant whose Discover is handed one channel of
\* *Result; its goroutines are utils.RunOneOff / utils.runOnce)

\* what the other components leave alone while mud runs
mudFrame == <<engineVars, resultVars, filterVars, aws, nd, cd, ipr>>

Ups == 1..MaxUpstreams

\* the channels a Discover call is handed: results in the *Result variant;
\* resources and errors in the older variant
MudChans == {"results", "resources", "errors"}

\* a goroutine that forwards from an inner channel to an outer one
NoForwarder == [pc |-> "idle", item |-> <<>>]

\* the k-th Result upstream u writes: nRes resources and nErr errors of its own
ChildResult(u, k, nRes, nErr) ==
    [ch |-> "results",
     val |-> [from |-> <<u, k>>,
              Resources |-> {<<u, k, i>> : i \in 1..nRes},
              Errors |-> {<<u, k, "error", i>> : i \in 1..nErr}]]

\* the Results one upstream discoverer can write in a Discover call
ChildResults(u) ==
    UNION {[1..len -> {ChildResult(u, 1, nRes, nErr) :
                          nRes \in 0..MaxChildResources, nErr \in 0..1}] :
             len \in 0..MaxResultsPerChild}

\* NewMultipleUpstreamDiscoverer(WithUpstreamDiscoverers(...)), and the
\* caller's channels open and empty
MudInit(variant, todo) ==
    [pc |-> "loop",
     variant |-> variant,
     n |-> Len(todo),
     idx |-> 1,
     wg |-> 0,
     up |-> [u \in Ups |-> [st |-> "idle",
                            todo |-> IF u <= Len(todo) THEN todo[u] ELSE <<>>,
                            innerClosed |-> FALSE]],
     fwd |-> [u \in Ups |-> [c \in MudChans |-> NoForwarder]],
     out |-> [c \in MudChans |-> [closed |-> FALSE, recv |-> <<>>]],
     panicked |-> "none"]

MudRunning == mud.pc # "idle" /\ mud.panicked = "none"

\* for _, discoverer := range mud.discoverers {
\*     wg.Add(1); go utils.RunOneOff(ctx, &wg, discoverer, results) }
\* RunOneOff calls runOnce, which makes resultsInner, starts
\* go discoverer.Discover(ctx, resultsInner) and ranges over resultsInner
MudLaunchRunOneOff ==
    /\ MudRunning
    /\ mud.variant = "results"
    /\ mud.pc = "loop"
    /\ mud.idx <= mud.n
    /\ mud' = [mud EXCEPT !.wg = @ + 1,
                          !.idx = @ + 1,
                          !.up[mud.idx].st = "discover",
                          !.fwd[mud.idx]["results"].pc = "recv"]
    /\ UNCHANGED mudFrame

\* the upstream's Discover sends its next item on an inner channel (made
\* without buffer): the goroutine ranging over that channel receives it
UpstreamWrite(u) ==
    /\ MudRunning
    /\ mud.up[u].st = "discover"
    /\ mud.up[u].todo # <<>>
    /\ LET w == Head(mud.up[u].todo) IN
          /\ mud.fwd[u][w.ch].pc = "recv"
          /\ mud' = [mud EXCEPT !.up[u].todo = Tail(@),
                                !.fwd[u][w.ch] = [pc |-> "send", item |-> w.val]]
    /\ UNCHANGED mudFrame

\* the upstream's Discover has written everything: it closes the channel(s)
\* it was given and returns
UpstreamClose(u) ==
    /\ MudRunning
    /\ mud.up[u].st = "discover"
    /\ mud.up[u].todo = <<>>
    /\ mud' = [mud EXCEPT !.up[u].innerClosed = TRUE,
                          !.up[u].st = IF mud.variant = "results" THEN "exit"
                                       ELSE "returned"]
    /\ UNCHANGED mudFrame

\* outer <- item, in the body of a range loop over an inner channel; the
\* caller is receiving.  A send on a closed channel panics.
Forward(u, c) ==
    /\ MudRunning
    /\ mud.fwd[u][c].pc = "send"
    /\ IF mud.out[c].closed
       THEN mud' = [mud EXCEPT !.panicked = "send on closed channel"]
       ELSE mud' = [mud EXCEPT !.out[c].recv = Append(@, mud.fwd[u][c].item),
                               !.fwd[u][c] = [pc |-> "recv", item |-> <<>>]]
    /\ UNCHANGED mudFrame

\* the range loop of runOnce ends: resultsInner is closed (and empty)
RunOnceRangeEnd(u) ==
    /\ MudRunning
    /\ mud.variant = "results"
    /\ mud.fwd[u]["results"].pc = "recv"
    /\ mud.up[u].innerClosed
    /\ mud' = [mud EXCEPT !.fwd[u]["results"].pc = "done"]
    /\ UNCHANGED mudFrame

\* runOnce returns to RunOneOff: defer wg.Done()
RunOneOffDone(u) ==
    /\ MudRunning
    /\ mud.fwd[u]["results"].pc = "done"
    /\ mud' = [mud EXCEPT !.wg = @ - 1,
                          !.fwd[u]["results"].pc = "exit"]
    /\ UNCHANGED mudFrame

\* wg.Wait()
MudWait ==
    /\ MudRunning
    /\ mud.pc = "loop"
    /\ mud.idx > mud.n
    /\ mud.wg = 0
    /\ mud' = [mud EXCEPT !.pc = "close"]
    /\ UNCHANGED mudFrame

\* defer func() { close(results) }(), then Discover returns
MudCloseResults ==
    /\ MudRunning
    /\ mud.variant = "results"
    /\ mud.pc = "close"
    /\ mud' = [mud EXCEPT !.out["results"].closed = TRUE, !.pc = "returned"]
    /\ UNCHANGED mudFrame

\* the composite has any number of upstreams, each writing at most
\* MaxResultsPerChild Results
InitMud ==
    /\ EngineIdle
    /\ ResultIdle
    /\ FilterIdle
    /\ aws = Idle
    /\ nd = Idle
    /\ cd = Idle
    /\ ipr = Idle
    /\ \E n \in 0..MaxUpstreams :
          \E todo \in [1..n -> UNION {ChildResults(u) : u \in Ups}] :
              /\ \A u \in 1..n : todo[u] \in ChildResults(u)
              /\ mud = MudInit("results", todo)

NextMud ==
    \/ MudLaunchRunOneOff
    \/ \E u \in Ups : UpstreamWrite(u)
    \/ \E u \in Ups : UpstreamClose(u)
    \/ \E u \in Ups : Forward(u, "results")
    \/ \E u \in Ups : RunOnceRangeEnd(u)
    \/ \E u \in Ups : RunOneOffDone(u)
    \/ MudWait
    \/ MudCloseResults

SpecMud == InitMud /\ [][NextMud]_vars

\* ------------------------------------- claims, MultipleUpstreamDiscoverer

\* everything the upstreams' Results hold
ChildResources == UNION {mud.out["results"].recv[i].Resources :
                            i \in 1..Len(mud.out["results"].recv)}
ChildErrors == UNION {mud.out["results"].recv[i].Errors :
                         i \in 1..Len(mud.out["results"].recv)}

\* C21: a Discover call of the composite whose children each produce one
\* Result yields a single Result, which holds the union of the resources of
\* all its children's Results and all their errors.
C21_SingleMergedResult ==
    (/\ mud.pc = "returned"
     /\ mud.n >= 1
     /\ \A u \in 1..mud.n :
           Cardinality({i \in 1..Len(mud.out["results"].recv) :
                           mud.out["results"].recv[i].from[1] = u}) = 1) =>
        /\ Len(mud.out["results"].recv) = 1
        /\ mud.out["results"].recv[1].Resources = ChildResources
        /\ ChildErrors \subseteq mud.out["results"].recv[1].Errors

\* ------------------------- AwsEc2Discoverer, AwsRdsDiscoverer, AwsEksDiscoverer
\* (the three discoverers that start one goroutine per instance or cluster;
\* the AWS API calls and the network probes are inputs: each succeeds or
\* fails, each probe answers true or false)

\* what the other components leave alone while an AWS discoverer runs
awsFrame == <<engineVars, resultVars, filterVars, mud, nd, cd, ipr>>

AwsKinds == {"ec2", "rds", "eks"}

\* the address fields of the details of one instance / cluster
AddrFields(kind) ==
    CASE kind = "ec2" -> {"PrivateDnsName", "PrivateIpAddress",
                          "PublicDnsName", "PublicIpAddress"}
      [] kind = "rds" -> {"EndpointAddress"}
      [] kind = "eks" -> {"Endpoint"}

\* the non-empty address fields an instance can come with
AddrSets(kind) == {S \in SUBSET AddrFields(kind) : Cardinality(S) <= MaxAddresses}

\* the fields the constructors set from the default* constants (the SSM
\* fields exist in AwsEc2Discoverer only)
AwsDefaults ==
    [networkReachabilityCheckEnabled |-> TRUE,
     reachabilityRequired            |-> FALSE,
     ssmStatusCheckEnabled           |-> TRUE,
     ssmStatusCheckRequired          |-> FALSE]

WithNetworkReachabilityCheck(enabled) ==
    [opt |-> "NetworkReachabilityCheck", enabled |-> enabled, required |-> FALSE]
WithReachabilityRequired(required) ==
    [opt |-> "ReachabilityRequired", enabled |-> FALSE, required |-> required]
WithAwsEc2DiscovererSsmStatusCheck(enabled, required) ==
    [opt |-> "SsmStatusCheck", enabled |-> enabled, required |-> required]

\* the options a caller can hand to the constructor of each discoverer
AwsOptions(kind) ==
    {WithNetworkReachabilityCheck(b) : b \in BOOLEAN}
        \cup {WithReachabilityRequired(b) : b \in BOOLEAN}
        \cup (IF kind = "ec2"
                THEN {WithAwsEc2DiscovererSsmStatusCheck(e, r) : e, r \in BOOLEAN}
                ELSE {})

AwsOptionLists(kind) == UNION {[1..len -> AwsOptions(kind)] : len \in 0..MaxOptions}

\* opt(d): what one option does to the discoverer under construction
ApplyOption(kind, cfg, o) ==
    CASE o.opt = "NetworkReachabilityCheck" ->
            [cfg EXCEPT !.networkReachabilityCheckEnabled = o.enabled]
      [] o.opt = "ReachabilityRequired" ->
            IF kind = "rds"
              THEN [cfg EXCEPT !.reachabilityRequired = o.required]
              ELSE [cfg EXCEPT
                      !.networkReachabilityCheckEnabled = @ \/ o.required,
                      !.reachabilityRequired = o.required]
      [] o.opt = "SsmStatusCheck" ->
            [cfg EXCEPT !.ssmStatusCheckEnabled = o.enabled \/ o.required,
                        !.ssmStatusCheckRequired = o.required]

\* the local variable result before NewResult has run
NilResult == [ptr |-> "nil", Resources |-> {}, Errors |-> <<>>,
              Warnings |-> <<>>, done |-> FALSE]
\* discovery.NewResult(discovererId)
AwsNewResult == [NilResult EXCEPT !.ptr = "result"]

\* result.AddErrorf, result.AddWarningf, result.AddResources, result.Done
AddErrorf_Dropped(r, msg) == r
AddErrorf(r, msg) == [r EXCEPT !.Errors = Append(@, msg)]
AddWarningf(r, msg) == [r EXCEPT !.Warnings = Append(@, msg)]
AddResources(r, i) == [r EXCEPT !.Resources = @ \cup {i}]
ResultDone(r) == [r EXCEPT !.done = TRUE]

\* an instance Discover has not reached (yet)
NoInstance == [st |-> "none", ssm |-> "not_checked", addrs |-> {},
               checked |-> {}, reachable |-> {}]

\* external calls and what they answered: "none" while not called
NoCalls == [accountId |-> "none", ssm |-> "none", describe |-> "none"]

AwsNew(kind, opts) ==
    [pc |-> "new", kind |-> kind, opts |-> opts, cfg |-> AwsDefaults,
     ssmOk |-> FALSE, n |-> 0, idx |-> 1, waitDeferred |-> FALSE, wg |-> 0,
     inst |-> [i \in 1..MaxInstances |-> NoInstance],
     result |-> NilResult, ext |-> NoCalls]

\* for _, opt := range opts { opt(d) }
NewAwsDiscovererApply ==
    /\ aws.pc = "new"
    /\ aws.opts # <<>>
    /\ aws' = [aws EXCEPT !.cfg = ApplyOption(aws.kind, @, Head(aws.opts)),
                          !.opts = Tail(@)]
    /\ UNCHANGED awsFrame

\* return d
NewAwsDiscovererReturn ==
    /\ aws.pc = "new"
    /\ aws.opts = <<>>
    /\ aws' = [aws EXCEPT !.pc = "constructed"]
    /\ UNCHANGED awsFrame

\* result := discovery.NewResult(id); defer result.Done()
AwsDiscover ==
    /\ aws.pc = "constructed"
    /\ aws' = [aws EXCEPT !.pc = "accountId", !.result = AwsNewResult]
    /\ UNCHANGED awsFrame

\* where `return result` goes: the deferred calls run last registered
\* first, wg.Wait() (once registered) before result.Done()
AfterReturn_DoneWithoutWait(waitDeferred) == "deferDone"
AfterReturn(waitDeferred) == IF waitDeferred THEN "deferWait" ELSE "deferDone"

\* utils.AwsAccountIdFromConfig; AwsEksDiscoverer registers wg.Wait() next
AwsAccountId ==
    /\ aws.pc = "accountId"
    /\ \E ok \in BOOLEAN :
          IF ok
            THEN aws' = [aws EXCEPT
                           !.ext.accountId = "ok",
                           !.pc = IF aws.kind = "ec2" THEN "ssm" ELSE "describe",
                           !.waitDeferred = (aws.kind = "eks")]
            ELSE aws' = [aws EXCEPT
                           !.ext.accountId = "failed",
                           !.result = AddErrorf(@, "failed to get AWS account ID"),
                           !.pc = AfterReturn(aws.waitDeferred)]
    /\ UNCHANGED awsFrame

\* if ssmStatusCheckEnabled { collectSsmInstanceStatuses ... }
AwsCollectSsmInstanceStatuses ==
    /\ aws.pc = "ssm"
    /\ IF ~aws.cfg.ssmStatusCheckEnabled
         THEN aws' = [aws EXCEPT !.pc = "describe"]
         ELSE \E ok \in BOOLEAN :
                IF ok
                  THEN aws' = [aws EXCEPT !.ext.ssm = "ok", !.ssmOk = TRUE,
                                          !.pc = "describe"]
                  ELSE IF aws.cfg.ssmStatusCheckRequired
                    THEN aws' = [aws EXCEPT
                                   !.ext.ssm = "failed",
                                   !.result = AddErrorf(@, "failed to collect SSM instance statuses"),
                                   !.pc = AfterReturn(aws.waitDeferred)]
                    ELSE aws' = [aws EXCEPT
                                   !.ext.ssm = "failed",
                                   !.result = AddWarningf(@, "failed to collect SSM instance statuses"),
                                   !.pc = "describe"]
    /\ UNCHANGED awsFrame

\* DescribeInstances / DescribeDBInstances / one NextPage of ListClusters;
\* on success AwsEc2Discoverer and AwsRdsDiscoverer register wg.Wait()
AwsDescribe ==
    /\ aws.pc = "describe"
    /\ \E ok \in BOOLEAN :
          IF ok
            THEN \E k \in 0..(MaxInstances - aws.n) :
                    aws' = [aws EXCEPT !.ext.describe = "ok",
                                       !.n = @ + k,
                                       !.waitDeferred = TRUE,
                                       !.pc = "loop"]
            ELSE aws' = [aws EXCEPT
                           !.ext.describe = "failed",
                           !.result = AddErrorf(@, "failed to describe"),
                           !.pc = AfterReturn(aws.waitDeferred)]
    /\ UNCHANGED awsFrame

\* the SSM status the instance details get (ec2), from the statuses map
SsmInstanceStatus_IgnoresFailure(a, assoc) ==
    IF a.kind = "ec2" /\ a.cfg.ssmStatusCheckEnabled
      THEN CASE assoc = "online"  -> "online"
             [] assoc = "offline" -> "offline"
             [] assoc = "absent"  -> "not_associated"
      ELSE "not_checked"
SsmInstanceStatus(a, assoc) ==
    IF a.kind = "ec2" /\ a.cfg.ssmStatusCheckEnabled /\ a.ssmOk
      THEN CASE assoc = "online"  -> "online"
             [] assoc = "offline" -> "offline"
             [] assoc = "absent"  -> "not_associated"
      ELSE "not_checked"

\* the instance Discover builds details for and starts a goroutine on
Launched(a, addrs, assoc) ==
    [a EXCEPT !.inst[a.idx] = [st |-> "start", ssm |-> SsmInstanceStatus(a, assoc),
                               addrs |-> addrs, checked |-> {}, reachable |-> {}],
              !.wg = @ + 1,
              !.idx = @ + 1]

\* one iteration of the loop over the instances (EC2, RDS): an instance with
\* no state, an un-included state or tags the filters reject is skipped;
\* else wg.Add(1); go reachabilityCheckAndAdd(...)
AwsLoopInstance ==
    /\ aws.pc = "loop"
    /\ aws.kind \in {"ec2", "rds"}
    /\ aws.idx <= aws.n
    /\ \E outcome \in {"nilState", "filtered", "launch"} :
          CASE outcome = "nilState" ->
                  aws' = [aws EXCEPT
                            !.result = IF aws.kind = "ec2"
                                         THEN AddWarningf(@, "instance with a nil value for state")
                                         ELSE @,
                            !.idx = @ + 1]
            [] outcome = "filtered" ->
                  aws' = [aws EXCEPT !.idx = @ + 1]
            [] outcome = "launch" ->
                  \E addrs \in AddrSets(aws.kind), assoc \in {"absent", "online", "offline"} :
                      aws' = Launched(aws, addrs, assoc)
    /\ UNCHANGED awsFrame

\* one iteration of processEksListClustersPage's loop: DescribeCluster, then
\* wg.Add(1); go processEksCluster(...)
AwsLoopCluster ==
    /\ aws.pc = "loop"
    /\ aws.kind = "eks"
    /\ aws.idx <= aws.n
    /\ \E ok \in BOOLEAN :
          IF ok
            THEN \E addrs \in AddrSets("eks") : aws' = Launched(aws, addrs, "absent")
            ELSE aws' = [aws EXCEPT
                           !.ext.describe = "failed",
                           !.result = AddErrorf(@, "failed to describe eks cluster"),
                           !.pc = AfterReturn(aws.waitDeferred)]
    /\ UNCHANGED awsFrame

\* the loop is over: return result (EKS: unless the paginator has more pages)
AwsLoopEnd ==
    /\ aws.pc = "loop"
    /\ aws.idx > aws.n
    /\ \E more \in BOOLEAN :
          IF more /\ aws.kind = "eks" /\ aws.n < MaxInstances
            THEN aws' = [aws EXCEPT !.pc = "describe"]
            ELSE aws' = [aws EXCEPT !.pc = AfterReturn(aws.waitDeferred)]
    /\ UNCHANGED awsFrame

\* defer wg.Wait()
AwsDeferWait ==
    /\ aws.pc = "deferWait"
    /\ aws.wg = 0
    /\ aws' = [aws EXCEPT !.pc = "deferDone"]
    /\ UNCHANGED awsFrame

\* defer result.Done(), and Discover hands the Result to its caller
AwsDeferDone ==
    /\ aws.pc = "deferDone"
    /\ aws' = [aws EXCEPT !.result = ResultDone(@), !.pc = "returned"]
    /\ UNCHANGED awsFrame

\* whether the goroutine probes the instance's addresses
ChecksReachability(a, i) ==
    CASE a.kind = "ec2" -> a.cfg.networkReachabilityCheckEnabled
      [] a.kind = "rds" -> a.cfg.networkReachabilityCheckEnabled
                             /\ a.inst[i].addrs # {}
      [] a.kind = "eks" -> a.cfg.networkReachabilityCheckEnabled

\* the fields a probe sets: EC2 and RDS probe the non-empty addresses, EKS
\* sets EndpointReachable whatever the endpoint
ProbedFields(a, i) ==
    IF a.kind = "eks" THEN AddrFields("eks") ELSE a.inst[i].addrs

\* first part of reachabilityCheckAndAdd / processEksCluster: the tag
\* filter (EKS), then the probes, each answering true or false (an empty
\* endpoint is never reachable)
GoReachabilityCheck(i) ==
    /\ aws.pc # "idle"
    /\ aws.inst[i].st = "start"
    /\ \E match \in BOOLEAN :
          IF aws.kind = "eks" /\ ~match
            THEN aws' = [aws EXCEPT !.inst[i].st = "deferred"]
            ELSE IF ChecksReachability(aws, i)
              THEN \E R \in SUBSET aws.inst[i].addrs :
                      aws' = [aws EXCEPT !.inst[i].checked = ProbedFields(aws, i),
                                         !.inst[i].reachable = R,
                                         !.inst[i].st = "decide"]
              ELSE aws' = [aws EXCEPT !.inst[i].st = "decide"]
    /\ UNCHANGED awsFrame

\* pointer.ValueOrZero over the *Reachable fields
AnyReachable(d) == d.reachable # {}

\* AwsEc2Discoverer.shouldIncludeInstance
shouldIncludeInstance_NetworkOnly(cfg, d) ==
    IF ~cfg.reachabilityRequired THEN TRUE ELSE AnyReachable(d)
shouldIncludeInstance(cfg, d) ==
    IF ~cfg.reachabilityRequired THEN TRUE
    ELSE IF d.ssm = "online" THEN TRUE
    ELSE AnyReachable(d)

\* whether the goroutine goes on to result.AddResources
AddsResource(a, i) ==
    CASE a.kind = "ec2" -> shouldIncludeInstance(a.cfg, a.inst[i])
      [] a.kind = "rds" -> ~(a.cfg.reachabilityRequired /\ AnyReachable(a.inst[i]))
      [] a.kind = "eks" -> ~(a.cfg.reachabilityRequired /\ ~AnyReachable(a.inst[i]))

\* second part: return, or result.AddResources(...)
GoAddResources(i) ==
    /\ aws.pc # "idle"
    /\ aws.inst[i].st = "decide"
    /\ aws' = [aws EXCEPT
                 !.result = IF AddsResource(aws, i) THEN AddResources(@, i) ELSE @,
                 !.inst[i].st = "deferred"]
    /\ UNCHANGED awsFrame

\* defer wg.Done()
GoWgDone(i) ==
    /\ aws.pc # "idle"
    /\ aws.inst[i].st = "deferred"
    /\ aws' = [aws EXCEPT !.wg = @ - 1, !.inst[i].st = "exit"]
    /\ UNCHANGED awsFrame

InitAws ==
    /\ EngineIdle
    /\ ResultIdle
    /\ FilterIdle
    /\ mud = Idle
    /\ nd = Idle
    /\ cd = Idle
    /\ ipr = Idle
    /\ \E kind \in AwsKinds : \E opts \in AwsOptionLists(kind) : aws = AwsNew(kind, opts)

NextAws ==
    \/ NewAwsDiscovererApply
    \/ NewAwsDiscovererReturn
    \/ AwsDiscover
    \/ AwsAccountId
    \/ AwsCollectSsmInstanceStatuses
    \/ AwsDescribe
    \/ AwsLoopInstance
    \/ AwsLoopCluster
    \/ AwsLoopEnd
    \/ AwsDeferWait
    \/ AwsDeferDone
    \/ \E i \in 1..MaxInstances : GoReachabilityCheck(i)
    \/ \E i \in 1..MaxInstances : GoAddResources(i)
    \/ \E i \in 1..MaxInstances : GoWgDone(i)

SpecAws == InitAws /\ [][NextAws]_vars

\* ------------------------------------------------ claims, AWS discoverers

\* an external call of AwsEc2Discoverer.Discover failed that ends the pass
Ec2CallFailed ==
    \/ aws.ext.accountId = "failed"
    \/ aws.ext.ssm = "failed" /\ aws.cfg.ssmStatusCheckRequired
    \/ aws.ext.describe = "failed"

\* C22: Discover returns a Result that is not nil and on which Done has
\* run, whichever external call failed; every failed call left an entry in
\* the Result; and when AwsEc2Discoverer fails to resolve the account id, to
\* collect the required SSM statuses or to describe the instances, the
\* Result has at least one error and no resource.
C22_FailureYieldsFinalizedResult ==
    aws.pc = "returned" =>
        /\ aws.result.ptr # "nil"
        /\ aws.result.done
        /\ (\E c \in DOMAIN aws.ext : aws.ext[c] = "failed") =>
              (aws.result.Errors # <<>> \/ aws.result.Warnings # <<>>)
        /\ (aws.kind = "ec2" /\ Ec2CallFailed) =>
              /\ Len(aws.result.Errors) >= 1
              /\ aws.result.Resources = {}

C22_Witness ==
    /\ aws.pc = "returned"
    /\ aws.kind = "ec2"
    /\ aws.ext.ssm = "failed"
    /\ aws.cfg.ssmStatusCheckRequired

\* C23: every step in which a goroutine of AwsEc2Discoverer,
\* AwsRdsDiscoverer or AwsEksDiscoverer adds a resource to the Result is
\* taken before Done has run on the Result and before Discover has returned.
C23_AddResourcesBeforeDone ==
    [][aws.pc # "idle" /\ aws'.result.Resources # aws.result.Resources =>
          /\ ~aws.result.done
          /\ ~aws'.result.done
          /\ aws.pc # "returned"]_vars

C23_Witness ==
    /\ aws.pc = "returned"
    /\ Cardinality(aws.result.Resources) = MaxInstances
    /\ aws.wg = 0

\* C25: with reachabilityRequired set, AwsRdsDiscoverer's Result holds an
\* instance a goroutine was started for if and only if its endpoint was
\* found reachable (unreachable: the check answered false or was not made).
C25_RdsRequiredKeepsReachableOnly ==
    (aws.kind = "rds" /\ aws.pc = "returned" /\ aws.cfg.reachabilityRequired) =>
        \A i \in 1..MaxInstances :
            aws.inst[i].st = "exit" =>
                (i \in aws.result.Resources <=> AnyReachable(aws.inst[i]))

\* C26: once AwsEc2Discoverer or AwsEksDiscoverer is constructed, whatever
\* the options and their order, reachabilityRequired implies that the
\* reachability check is enabled.
C26_RequiredImpliesEnabled ==
    (aws.kind \in {"ec2", "eks"} /\ aws.pc \notin {"idle", "new"}) =>
        (aws.cfg.reachabilityRequired => aws.cfg.networkReachabilityCheckEnabled)

\* ------------------------------------------------------ NetworkDiscoverer
\* (Discover scans every (ip, port) pair of every target in a goroutine of
\* its own, under a weighted semaphore of size maxConcurrency)

\* what the other components leave alone while a NetworkDiscoverer runs
ndFrame == <<engineVars, resultVars, filterVars, mud, aws, cd, ipr>>

Scans == 1..MaxScans

\* a target: whether targetToIps succeeds, and how many (ip, port) pairs
\* its addresses and the configured ports make
Targets == [ok : BOOLEAN, scans : 0..MaxScans]
TargetLists == UNION {[1..len -> Targets] : len \in 0..MaxTargets}

\* what ctx.Err() can be once ctx is done
CtxErrs == {"context.Canceled", "context.DeadlineExceeded"}

NdInit(maxConcurrency, targets) ==
    [pc |-> "targets", maxConcurrency |-> maxConcurrency, targets |-> targets,
     t |-> 1, launched |-> 0, wg |-> 0, cur |-> 0,
     g |-> [k \in Scans |-> "none"],
     ctxErr |-> "nil",
     result |-> AwsNewResult]

\* for _, target := range nd.targets: targetToIps, and a fresh wait group
NdTarget ==
    /\ nd.pc = "targets"
    /\ nd.t <= Len(nd.targets)
    /\ IF nd.targets[nd.t].ok
         THEN nd' = [nd EXCEPT !.pc = "launch", !.launched = 0, !.wg = 0,
                               !.g = [k \in Scans |-> "none"]]
         ELSE nd' = [nd EXCEPT !.result = AddErrorf(@, "failed to get IPs for target"),
                               !.t = @ + 1]
    /\ UNCHANGED ndFrame

\* wg.Add(1); go func(ip, port string) {...}(ip, port)
NdLaunch ==
    /\ nd.pc = "launch"
    /\ nd.launched < nd.targets[nd.t].scans
    /\ nd' = [nd EXCEPT !.wg = @ + 1,
                        !.launched = @ + 1,
                        !.g[nd.launched + 1] = "acquire"]
    /\ UNCHANGED ndFrame

\* wg.Wait() at the end of the target's iteration
NdWait ==
    /\ nd.pc = "launch"
    /\ nd.launched = nd.targets[nd.t].scans
    /\ nd.wg = 0
    /\ nd' = [nd EXCEPT !.pc = "targets", !.t = @ + 1]
    /\ UNCHANGED ndFrame

\* return result, and the deferred result.Done()
NdReturn ==
    /\ nd.pc = "targets"
    /\ nd.t > Len(nd.targets)
    /\ nd' = [nd EXCEPT !.result = ResultDone(@), !.pc = "returned"]
    /\ UNCHANGED ndFrame

\* the caller cancels ctx, or its deadline passes
NdCtxDone ==
    /\ nd.pc \notin {"idle", "returned"}
    /\ nd.ctxErr = "nil"
    /\ \E err \in CtxErrs : nd' = [nd EXCEPT !.ctxErr = err]
    /\ UNCHANGED ndFrame

\* semaphore.Weighted: a weight of 1 is granted while cur + 1 <= size
SemAvailable_Always(cur, size) == TRUE
SemAvailable(cur, size) == cur + 1 <= size

\* sem.Acquire(ctx, 1) returns nil; then defer sem.Release(1)
ScanAcquire(k) ==
    /\ nd.pc # "idle"
    /\ nd.g[k] = "acquire"
    /\ SemAvailable(nd.cur, nd.maxConcurrency)
    /\ nd' = [nd EXCEPT !.cur = @ + 1, !.g[k] = "scan"]
    /\ UNCHANGED ndFrame

\* sem.Acquire(ctx, 1) returns ctx.Err(), the semaphore unchanged: an
\* error is added unless it is context.Canceled
ScanAcquireFails(k) ==
    /\ nd.pc # "idle"
    /\ nd.g[k] = "acquire"
    /\ nd.ctxErr # "nil"
    /\ nd' = [nd EXCEPT
                !.result = IF nd.ctxErr # "context.Canceled"
                             THEN AddErrorf(@, "failed to acquire semaphore")
                             ELSE @,
                !.g[k] = "deferred"]
    /\ UNCHANGED ndFrame

\* scanPort(ctx, ip, port), and result.AddResources when it finds a service
\* the switch knows
ScanPort(k) ==
    /\ nd.pc # "idle"
    /\ nd.g[k] = "scan"
    /\ \E found \in BOOLEAN :
          nd' = [nd EXCEPT
                   !.result = IF found THEN AddResources(@, <<nd.t, k>>) ELSE @,
                   !.g[k] = "release"]
    /\ UNCHANGED ndFrame

\* mutant: the goroutine keeps its weight, sem.Release(1) is never deferred
ScanRelease_Missing(k) ==
    /\ nd.pc # "idle"
    /\ nd.g[k] = "release"
    /\ nd' = [nd EXCEPT !.g[k] = "deferred"]
    /\ UNCHANGED ndFrame

\* the deferred sem.Release(1)
ScanRelease(k) ==
    /\ nd.pc # "idle"
    /\ nd.g[k] = "release"
    /\ nd' = [nd EXCEPT !.cur = @ - 1, !.g[k] = "deferred"]
    /\ UNCHANGED ndFrame

\* the deferred wg.Done()
ScanWgDone(k) ==
    /\ nd.pc # "idle"
    /\ nd.g[k] = "deferred"
    /\ nd' = [nd EXCEPT !.wg = @ - 1, !.g[k] = "exit"]
    /\ UNCHANGED ndFrame

InitNd ==
    /\ EngineIdle
    /\ ResultIdle
    /\ FilterIdle
    /\ mud = Idle
    /\ aws = Idle
    /\ cd = Idle
    /\ ipr = Idle
    /\ \E maxConcurrency \in 0..MaxConcurrency, targets \in TargetLists :
          nd = NdInit(maxConcurrency, targets)

NextNd ==
    \/ NdTarget
    \/ NdLaunch
    \/ NdWait
    \/ NdReturn
    \/ NdCtxDone
    \/ \E k \in Scans : ScanAcquire(k)
    \/ \E k \in Scans : ScanAcquireFails(k)
    \/ \E k \in Scans : ScanPort(k)
    \/ \E k \in Scans : ScanRelease(k)
    \/ \E k \in Scans : ScanWgDone(k)

SpecNd == InitNd /\ [][NextNd]_vars

\* ------------------------------------------------ claims, NetworkDiscoverer

\* the goroutines between a successful Acquire and its Release
ScansInFlight == {k \in Scans : nd.g[k] \in {"scan", "release"}}

\* C24: within one NetworkDiscoverer.Discover call the number of goroutines
\* between a successful semaphore Acquire and its Release never exceeds
\* maxConcurrency, whatever the number of targets and (ip, port) pairs.
C24_AtMostMaxConcurrencyInFlight ==
    nd.pc # "idle" =>
        /\ Cardinality(ScansInFlight) <= nd.maxConcurrency
        /\ Cardinality(ScansInFlight) = nd.cur

C24_Witness ==
    /\ nd.pc # "idle"
    /\ nd.maxConcurrency >= 1
    /\ Cardinality(ScansInFlight) = nd.maxConcurrency
    /\ \E k \in Scans : nd.g[k] = "acquire"

\* ------------------- continuous engine, two discoverers with their channels

\* two discoverers, each with an interval-update and a trigger channel; the
\* specification follows Run's launches and the two loops while the passes
\* they start are still in their Discover call (results is unbuffered and
\* nothing is sent on it)
InitIndep ==
    /\ InitContWith(MaxDiscoverers, Intervals, {OpenChan})
    /\ resultsCap = 0

NextIndep ==
    \/ ContRunLaunch
    \/ \E d \in Ids : LoopNewTicker(d)
    \/ \E d \in Ids : LoopInitialPass(d)
    \/ \E d \in Ids : LoopCtxDone(d)
    \/ \E d \in Ids : LoopIntervalUpdate(d)
    \/ \E d \in Ids : LoopTrigger(d)
    \/ \E d \in Ids : LoopTick(d)
    \/ \E d \in Ids : \E v \in Intervals : SendInterval(d, v)
    \/ \E d \in Ids : SendTrigger(d)
    \/ TimePasses
    \/ Cancel

SpecIndep == InitIndep /\ [][NextIndep]_vars

\* C27: a step in which the loop of one discoverer handles an interval
\* update, a trigger or a tick leaves the interval, the ticker and the
\* launched passes of every other discoverer unchanged.
C27_LoopsIndependent ==
    [][\A d \in Ids :
          (ConsumesInterval(d) \/ ConsumesTrigger(d) \/ ConsumesTick(d)) =>
              \A e \in Ids \ {d} :
                  /\ interval'[e] = interval[e]
                  /\ ticker'[e] = ticker[e]
                  /\ passes'[e] = passes[e]]_vars

C27_Witness ==
    /\ loopPc[1] = "select"
    /\ loopPc[2] = "select"
    /\ interval[1] # discoverers[1].interval
    /\ interval[2] = discoverers[2].interval
    /\ Len(passes[2]) = 2
    /\ ticker[1] # ticker[2]

\* ------------------------------------------ claims, tag filters (continued)

\* C28: evaluateKubernetesPodLabels returns included AND NOT excluded, where
\* included is: inclusion is nil or some label matches a rule of inclusion,
\* and excluded is: exclusion is not nil and some label matches a rule of
\* exclusion.
C28_PodLabelsIsReference ==
    filterFn = "evaluateKubernetesPodLabels" =>
        filterRet = (RefIncluded /\ ~RefExcluded)

C28_Witness ==
    /\ filterFn = "evaluateKubernetesPodLabels"
    /\ ~inclusion.isNil
    /\ ~exclusion.isNil
    /\ DOMAIN kv = Keys
    /\ MatchesSomeRule(inclusion)
    /\ ~MatchesSomeRule(exclusion)
    /\ DOMAIN exclusion.m # {}
    /\ filterRet = TRUE

\* what the tag filter that was called returns when its two loops visit the
\* pairs in the orders ord1 and ord2
FilterResult(ord1, ord2) ==
    IF filterFn = "KVMatchesFilters"
      THEN KVMatchesFilters(kv, inclusion, exclusion, ord1, ord2)
      ELSE evaluateKubernetesPodLabels(kv, inclusion, exclusion, ord1, ord2)

\* C29: for fixed kv, inclusion and exclusion the tag filter returns the
\* same boolean whatever the order in which its loops visit the pairs, and a
\* call leaves kv, inclusion and exclusion as they were.
C29_OrderIndependent ==
    /\ [](filterFn # "none" =>
            \A ord1 \in Orders(DOMAIN kv) : \A ord2 \in Orders(DOMAIN kv) :
                FilterResult(ord1, ord2) = filterRet)
    /\ [][filterFn' # filterFn =>
            kv' = kv /\ inclusion' = inclusion /\ exclusion' = exclusion]_vars

\* two pairs, of which only one matches the inclusion filter
C29_Witness ==
    /\ filterFn = "KVMatchesFilters"
    /\ DOMAIN kv = Keys
    /\ ~inclusion.isNil
    /\ Cardinality({k \in DOMAIN kv : RuleMatches(k, kv[k], inclusion)}) = 1
    /\ exclusion.isNil
    /\ filterRet = TRUE

\* ----------------- MultipleUpstreamDiscoverer, resources / errors channels
\* (src/discoverers/multiple_upstream.go: Discover is handed a channel of
\* resource batches and a channel of errors; its goroutines are runOne and
\* the two forwarders runOne starts)

\* the k-th item upstream u writes, on channel c of the two it was given
ChildWrite(u, k, c) == [ch |-> c, val |-> <<u, k, c>>]

\* what one upstream discoverer can write in a Discover call
ChildWrites(u) ==
    UNION {{w \in [1..len -> {ChildWrite(u, k, c) : k \in 1..MaxWritesPerChild,
                                                    c \in {"resources", "errors"}}] :
               \A k \in 1..len : w[k].val[2] = k} :
             len \in 0..MaxWritesPerChild}

\* for _, discoverer := range mud.discoverers {
\*     wg.Add(1); go runOne(ctx, discoverer, &wg, resources, errors) }
\* runOne makes resourcesInner and errorsInner, starts a goroutine ranging
\* over each, and calls discoverer.Discover(ctx, resourcesInner, errorsInner)
MudLaunchRunOne ==
    /\ MudRunning
    /\ mud.variant = "channels"
    /\ mud.pc = "loop"
    /\ mud.idx <= mud.n
    /\ mud' = [mud EXCEPT !.wg = @ + 1,
                          !.idx = @ + 1,
                          !.up[mud.idx].st = "discover",
                          !.fwd[mud.idx]["resources"].pc = "recv",
                          !.fwd[mud.idx]["errors"].pc = "recv"]
    /\ UNCHANGED mudFrame

\* discoverer.Discover has returned to runOne: defer wg.Done()
RunOneDone(u) ==
    /\ MudRunning
    /\ mud.variant = "channels"
    /\ mud.up[u].st = "returned"
    /\ mud' = [mud EXCEPT !.wg = @ - 1, !.up[u].st = "exit"]
    /\ UNCHANGED mudFrame

\* the range loop of a forwarder ends: its inner channel is closed
ForwarderRangeEnd(u, c) ==
    /\ MudRunning
    /\ mud.variant = "channels"
    /\ mud.fwd[u][c].pc = "recv"
    /\ mud.up[u].innerClosed
    /\ mud' = [mud EXCEPT !.fwd[u][c].pc = "exit"]
    /\ UNCHANGED mudFrame

\* the deferred func() of Discover: close(resources) ...
MudCloseResources ==
    /\ MudRunning
    /\ mud.variant = "channels"
    /\ mud.pc = "close"
    /\ mud' = [mud EXCEPT !.out["resources"].closed = TRUE, !.pc = "closeErrors"]
    /\ UNCHANGED mudFrame

\* ... close(errors), then Discover returns
MudCloseErrors ==
    /\ MudRunning
    /\ mud.pc = "closeErrors"
    /\ mud' = [mud EXCEPT !.out["errors"].closed = TRUE, !.pc = "returned"]
    /\ UNCHANGED mudFrame

InitMudChans ==
    /\ EngineIdle
    /\ ResultIdle
    /\ FilterIdle
    /\ aws = Idle
    /\ nd = Idle
    /\ cd = Idle
    /\ ipr = Idle
    /\ \E n \in 0..MaxChanUpstreams :
          \E todo \in [1..n -> UNION {ChildWrites(u) : u \in Ups}] :
              /\ \A u \in 1..n : todo[u] \in ChildWrites(u)
              /\ mud = MudInit("channels", todo)

NextMudChans ==
    \/ MudLaunchRunOne
    \/ \E u \in Ups : UpstreamWrite(u)
    \/ \E u \in Ups : UpstreamClose(u)
    \/ \E u \in Ups : RunOneDone(u)
    \/ \E u \in Ups : \E c \in {"resources", "errors"} : Forward(u, c)
    \/ \E u \in Ups : \E c \in {"resources", "errors"} : ForwarderRangeEnd(u, c)
    \/ MudWait
    \/ MudCloseResources
    \/ MudCloseErrors

SpecMudChans == InitMudChans /\ [][NextMudChans]_vars

\* C30: Discover closes resources and errors only once every batch and
\* error an upstream wrote has been forwarded to them, and no forwarder
\* sends on a closed channel.
C30_ClosesAfterForwarding ==
    mud.pc # "idle" /\ mud.variant = "channels" =>
        /\ mud.panicked = "none"
        /\ \A c \in {"resources", "errors"} :
              mud.out[c].closed =>
                  \A u \in Ups : mud.fwd[u][c].pc # "send"

\* ------------------------------------------- claims, AwsEc2Discoverer

SsmFailureMsg == "failed to collect SSM instance statuses"
Has(seq, msg) == \E j \in DOMAIN seq : seq[j] = msg

\* C32: when collectSsmInstanceStatuses fails in AwsEc2Discoverer.Discover:
\* with the SSM check required the pass records an error and returns, without
\* describing instances and with no resource; with the check not required it
\* records a warning and no error for it, goes on to describe the instances,
\* and every instance it reports has SSM status not_checked.
C32_SsmFailureHandling ==
    (aws.pc # "idle" /\ aws.kind = "ec2" /\ aws.ext.ssm = "failed") =>
        IF aws.cfg.ssmStatusCheckRequired
          THEN /\ Has(aws.result.Errors, SsmFailureMsg)
               /\ ~Has(aws.result.Warnings, SsmFailureMsg)
               /\ aws.pc \in {"deferWait", "deferDone", "returned"}
               /\ aws.ext.describe = "none"
               /\ aws.result.Resources = {}
          ELSE /\ Has(aws.result.Warnings, SsmFailureMsg)
               /\ ~Has(aws.result.Errors, SsmFailureMsg)
               /\ aws.pc = "describe" \/ aws.ext.describe # "none"
               /\ \A i \in aws.result.Resources : aws.inst[i].ssm = "not_checked"

\* a pass whose optional SSM collection failed has returned with an instance
C32_Witness ==
    /\ aws.pc = "returned"
    /\ aws.kind = "ec2"
    /\ aws.ext.ssm = "failed"
    /\ ~aws.cfg.ssmStatusCheckRequired
    /\ aws.result.Errors = <<>>
    /\ aws.result.Resources # {}

\* the goroutine of instance i is past its decision
Decided(i) == aws.inst[i].st \in {"deferred", "exit"}

\* C33: AwsEc2Discoverer adds an instance to the Result iff reachability is
\* not required, or its SSM status is online, or one of its address
\* reachability flags is true; leaving an instance out adds neither an error
\* nor a warning.
C33_Ec2IncludedIffReachable ==
    /\ [](aws.pc # "idle" /\ aws.kind = "ec2" =>
            \A i \in 1..MaxInstances :
               Decided(i) =>
                  (i \in aws.result.Resources
                     <=> \/ ~aws.cfg.reachabilityRequired
                         \/ aws.inst[i].ssm = "online"
                         \/ \E f \in AddrFields("ec2") : f \in aws.inst[i].reachable))
    /\ [][aws.pc # "idle" /\ aws.kind = "ec2" =>
            \A i \in 1..MaxInstances :
               (aws.inst[i].st = "decide" /\ aws'.inst[i].st = "deferred"
                  /\ i \notin aws'.result.Resources)
               => /\ aws'.result.Errors = aws.result.Errors
                  /\ aws'.result.Warnings = aws.result.Warnings]_vars

\* reachability is required; one instance was left out, one is in through SSM
\* with no reachable address
C33_Witness ==
    /\ aws.pc = "returned"
    /\ aws.kind = "ec2"
    /\ aws.cfg.reachabilityRequired
    /\ \E i, j \in 1..MaxInstances :
          /\ Decided(i) /\ i \notin aws.result.Resources
          /\ Decided(j) /\ j \in aws.result.Resources
          /\ aws.inst[j].ssm = "online" /\ aws.inst[j].reachable = {}
    /\ aws.result.Errors = <<>>
    /\ aws.result.Warnings = <<>>

\* -------------------------------------------------- ContinuousDiscoverer
\* (discoverers package: Discover starts one RunContinuously goroutine per
\* upstream discoverer; each starts a runOnce goroutine at once and one per
\* tick, without a wait group of its own)

\* what the other components leave alone while a ContinuousDiscoverer runs
cdFrame == <<engineVars, resultVars, filterVars, mud, aws, nd, ipr>>

ContUps == 1..MaxContUpstreams
ContPasses == 1..MaxContPasses

\* a runOnce goroutine that was not started
NoContPass == [st |-> "none", written |-> 0]

\* NewContinuousDiscoverer(WithUpstreamDiscoverer(d, interval), ...) with n
\* upstreams of positive interval, and the caller's results channel open
CdInit(n) ==
    [pc |-> "loop", n |-> n, idx |-> 1, wg |-> 0, ctxDone |-> FALSE,
     loop |-> [u \in ContUps |-> [st |-> "idle", tickerOn |-> FALSE, tick |-> FALSE]],
     pass |-> [u \in ContUps |-> [k \in ContPasses |-> NoContPass]],
     closed |-> FALSE, delivered |-> {}, panicked |-> "none"]

CdRunning == cd.pc # "idle" /\ cd.panicked = "none"

\* the passes upstream u's loop has started
Started(u) == {k \in ContPasses : cd.pass[u][k].st # "none"}

\* for _, discoverer := range cd.discoverers {
\*     wg.Add(1); go runContinuously(ctx, &wg, interval, discoverer, results) }
CdLaunch ==
    /\ CdRunning
    /\ cd.pc = "loop"
    /\ cd.idx <= cd.n
    /\ cd' = [cd EXCEPT !.wg = @ + 1, !.idx = @ + 1, !.loop[cd.idx].st = "start"]
    /\ UNCHANGED cdFrame

\* ticker := time.NewTicker(interval); go runOnce(ctx, discoverer, results)
RunContinuouslyStart(u) ==
    /\ CdRunning
    /\ cd.loop[u].st = "start"
    /\ cd' = [cd EXCEPT !.loop[u] = [st |-> "select", tickerOn |-> TRUE, tick |-> FALSE],
                        !.pass[u][1].st = "discover"]
    /\ UNCHANGED cdFrame

\* the ticker's period has passed: a tick waits in ticker.C
CdTickerFires(u) ==
    /\ CdRunning
    /\ cd.loop[u].tickerOn
    /\ ~cd.loop[u].tick
    /\ cd' = [cd EXCEPT !.loop[u].tick = TRUE]
    /\ UNCHANGED cdFrame

\* case <-ticker.C: go runOnce(ctx, discoverer, results)
RunContinuouslyTick(u) ==
    /\ CdRunning
    /\ cd.loop[u].st = "select"
    /\ cd.loop[u].tick
    /\ Cardinality(Started(u)) < MaxContPasses
    /\ cd' = [cd EXCEPT !.loop[u].tick = FALSE,
                        !.pass[u][Cardinality(Started(u)) + 1].st = "discover"]
    /\ UNCHANGED cdFrame

\* case <-ctx.Done(): return, with the deferred ticker.Stop() and wg.Done()
RunContinuouslyCtxDone(u) ==
    /\ CdRunning
    /\ cd.loop[u].st = "select"
    /\ cd.ctxDone
    /\ cd' = [cd EXCEPT !.loop[u].st = "exit", !.loop[u].tickerOn = FALSE,
                        !.wg = @ - 1]
    /\ UNCHANGED cdFrame

\* the caller cancels ctx
CdCancel ==
    /\ CdRunning
    /\ ~cd.ctxDone
    /\ cd' = [cd EXCEPT !.ctxDone = TRUE]
    /\ UNCHANGED cdFrame

\* the upstream's Discover sends a Result on resultsInner and the range loop
\* of runOnce receives it
ContPassWrite(u, k) ==
    /\ CdRunning
    /\ cd.pass[u][k].st = "discover"
    /\ cd.pass[u][k].written < MaxResultsPerChild
    /\ cd' = [cd EXCEPT !.pass[u][k] = [st |-> "send", written |-> @.written + 1]]
    /\ UNCHANGED cdFrame

\* results <- result in runOnce; the caller is receiving.  A send on a closed
\* channel panics.
ContPassForward(u, k) ==
    /\ CdRunning
    /\ cd.pass[u][k].st = "send"
    /\ IF cd.closed
       THEN cd' = [cd EXCEPT !.panicked = "send on closed channel"]
       ELSE cd' = [cd EXCEPT !.delivered = @ \cup {<<u, k, cd.pass[u][k].written>>},
                             !.pass[u][k].st = "discover"]
    /\ UNCHANGED cdFrame

\* the upstream's Discover closes resultsInner and the range loop ends
ContPassEnd(u, k) ==
    /\ CdRunning
    /\ cd.pass[u][k].st = "discover"
    /\ cd' = [cd EXCEPT !.pass[u][k].st = "exit"]
    /\ UNCHANGED cdFrame

\* wg.Wait()
CdWait ==
    /\ CdRunning
    /\ cd.pc = "loop"
    /\ cd.idx > cd.n
    /\ cd.wg = 0
    /\ cd' = [cd EXCEPT !.pc = "close"]
    /\ UNCHANGED cdFrame

\* defer close(results), then Discover returns
CdClose ==
    /\ CdRunning
    /\ cd.pc = "close"
    /\ cd' = [cd EXCEPT !.closed = TRUE, !.pc = "returned"]
    /\ UNCHANGED cdFrame

InitCd ==
    /\ EngineIdle
    /\ ResultIdle
    /\ FilterIdle
    /\ mud = Idle
    /\ aws = Idle
    /\ nd = Idle
    /\ ipr = Idle
    /\ \E n \in 0..MaxContUpstreams : cd = CdInit(n)

NextCd ==
    \/ CdLaunch
    \/ \E u \in ContUps : RunContinuouslyStart(u)
    \/ \E u \in ContUps : CdTickerFires(u)
    \/ \E u \in ContUps : RunContinuouslyTick(u)
    \/ \E u \in ContUps : RunContinuouslyCtxDone(u)
    \/ CdCancel
    \/ \E u \in ContUps, k \in ContPasses : ContPassWrite(u, k)
    \/ \E u \in ContUps, k \in ContPasses : ContPassForward(u, k)
    \/ \E u \in ContUps, k \in ContPasses : ContPassEnd(u, k)
    \/ CdWait
    \/ CdClose

SpecCd == InitCd /\ [][NextCd]_vars

\* C31: ContinuousDiscoverer.Discover closes results only once every pass
\* its loops started has finished forwarding: no pass holds a Result to send
\* when results is closed, and no pass sends on the closed channel.
C31_ClosesAfterPassesForwarded ==
    cd.pc # "idle" =>
        /\ cd.panicked = "none"
        /\ cd.closed =>
              \A u \in ContUps, k \in ContPasses : cd.pass[u][k].st # "send"

\* ---------------------------------------- claims, the loop of one discoverer

\* the passes of discoverer d whose runOnce has not run its wg.Done()
Unfinished(d) == {k \in 1..Len(passes[d]) : passes[d][k].st # "exit"}

\* C34: the inner wait group of a discoverer's loop is never negative and
\* always counts the launched passes that have not finished, whether the pass
\* was launched as the initial pass, by a tick or by a trigger; no Done
\* panics for want of an Add.
C34_InnerWgCountsUnfinishedPasses ==
    /\ \A d \in Ids : /\ innerWg[d] >= 0
                      /\ innerWg[d] = Cardinality(Unfinished(d))
    /\ panicked # "sync: negative WaitGroup counter"

\* a closed channel with nothing left in it: a receive yields ok = false
ClosedEmpty(c) == c.st = "closed" /\ c.q = <<>>

\* the step re-arms the ticker of d (NewTicker or Reset), as far as the state
\* shows it: the time to the next tick goes back up to the period without a
\* tick having fired
TickerRearmed(d) ==
    /\ ticker'[d] # ticker[d]
    /\ ticker'[d] # TickerAdvance(ticker[d])
    /\ ~ConsumesTick(d)

\* the step launches a pass of discoverer d from its trigger case
LaunchesTriggerPass(d) ==
    /\ Len(passes'[d]) = Len(passes[d]) + 1
    /\ passes'[d][Len(passes'[d])].kind = "trigger"

\* C35: once the interval-update channel (the trigger channel) of a
\* discoverer is closed and empty, no step changes its interval (launches a
\* trigger pass), the ticker is re-armed by the other channel's messages
\* only, and the loop leaves its select only through ctx.Done; the ctx.Done
\* and tick cases of the select stay enabled.  (Steps of a loop that is in
\* its select.)
C35_ClosedChannelReceiveIsNoOp ==
    /\ [][\A d \in Ids :
            loopPc[d] = "select" =>
               /\ ClosedEmpty(triggerC[d]) =>
                     /\ ~LaunchesTriggerPass(d)
                     /\ TickerRearmed(d) => ConsumesInterval(d)
               /\ ClosedEmpty(intervalC[d]) =>
                     /\ interval'[d] = interval[d]
                     /\ TickerRearmed(d) => ConsumesTrigger(d)
               /\ (ClosedEmpty(triggerC[d]) \/ ClosedEmpty(intervalC[d])) =>
                     (loopPc'[d] # "select" => ctxDone)]_vars
    /\ [](\A d \in Ids :
            ((ClosedEmpty(triggerC[d]) \/ ClosedEmpty(intervalC[d]))
               /\ loopPc[d] = "select" /\ panicked = "none") =>
                  /\ ctxDone => ENABLED LoopCtxDone(d)
                  /\ (ticker[d].c /\ TotalPasses < MaxPasses) => ENABLED LoopTick(d))

\* both channels of a discoverer are closed, its loop is selecting with a
\* tick waiting and ctx done
C35_Witness ==
    \E d \in 1..N :
        /\ ClosedEmpty(triggerC[d])
        /\ ClosedEmpty(intervalC[d])
        /\ loopPc[d] = "select"
        /\ ticker[d].c
        /\ ctxDone
        /\ panicked = "none"
        /\ \E k \in 1..Len(passes[d]) : passes[d][k].kind = "tick"

\* ------------------------------------------ any duration as an interval

\* time.Duration values an owner can configure or send: negative, zero and
\* positive ones
Durations == {-1, 0} \cup Intervals

\* one or more discoverers registered WithInitialInterval(v) for any
\* duration v, each with an interval-update and a trigger channel; the
\* specification follows Run's launches and the loops while the passes they
\* start are still in their Discover call
InitDurations ==
    /\ \E n \in 1..MaxLoops : InitContWith(n, Durations, {OpenChan})
    /\ resultsCap = 0

NextDurations ==
    \/ ContRunLaunch
    \/ \E d \in Ids : LoopNewTicker(d)
    \/ \E d \in Ids : LoopInitialPass(d)
    \/ \E d \in Ids : LoopCtxDone(d)
    \/ \E d \in Ids : LoopIntervalUpdate(d)
    \/ \E d \in Ids : LoopTrigger(d)
    \/ \E d \in Ids : LoopTick(d)
    \/ \E d \in Ids : \E v \in Durations : SendInterval(d, v)
    \/ \E d \in Ids : SendTrigger(d)
    \/ TimePasses
    \/ Cancel

SpecDurations == InitDurations /\ [][NextDurations]_vars

\* C36: a discoverer's loop never calls time.NewTicker or ticker.Reset with
\* a non-positive interval, whatever initial interval is configured and
\* whatever values arrive on the interval-update channel.
C36_TickerIntervalPositive ==
    /\ panicked \notin {"non-positive interval for NewTicker",
                        "non-positive interval for Ticker.Reset"}
    /\ \A d \in Ids : ticker[d].on => ticker[d].period > 0

\* ------------------------------------- NetworkDiscoverer under fair scheduling

\* a step of Discover or of one of its goroutines (not of the caller's ctx)
NdProgress ==
    \/ NdTarget
    \/ NdLaunch
    \/ NdWait
    \/ NdReturn
    \/ \E k \in Scans : ScanAcquire(k)
    \/ \E k \in Scans : ScanAcquireFails(k)
    \/ \E k \in Scans : ScanPort(k)
    \/ \E k \in Scans : ScanRelease(k)
    \/ \E k \in Scans : ScanWgDone(k)

\* Go's scheduler runs a runnable goroutine, every scanPort call returns
\* (its dial has a timeout) and Acquire returns once a weight is free or ctx
\* is done.  The cancellation of ctx is left free.
FairNd == SpecNd /\ WF_vars(NdProgress)

\* C37: with maxConcurrency at least 1 (and every scan terminating) every
\* scan goroutine ends, having acquired and released the semaphore or having
\* given up on ctx; Discover returns, and only after all its goroutines have
\* finished and every weight is released; a goroutine giving up on
\* context.Canceled adds no error.
C37_DiscoverTerminates ==
    /\ (nd.pc # "idle" /\ nd.maxConcurrency >= 1) ~> (nd.pc = "returned")
    /\ \A k \in Scans :
          (nd.maxConcurrency >= 1 /\ nd.g[k] = "acquire") ~> (nd.g[k] = "exit")
    /\ [](nd.pc = "returned" =>
            /\ \A k \in Scans : nd.g[k] \in {"none", "exit"}
            /\ nd.wg = 0
            /\ nd.cur = 0)
    /\ [][\A k \in Scans :
            (nd.g[k] = "acquire" /\ nd'.g[k] = "deferred"
               /\ nd.ctxErr = "context.Canceled")
            => nd'.result.Errors = nd.result.Errors]_vars

\* Discover has returned after a cancellation, with a resource found by a
\* scan and no error
C37_Witness ==
    /\ nd.pc = "returned"
    /\ nd.maxConcurrency >= 1
    /\ nd.ctxErr = "context.Canceled"
    /\ nd.result.Errors = <<>>
    /\ nd.result.Resources # {}
    /\ \E k \in Scans : nd.g[k] = "exit"

\* ------------------------------------------- claims, inclusion filter set

\* C38: with an inclusion filter that is not nil, the tag filter
\* (KVMatchesFilters, evaluateKubernetesPodLabels) returns true only for a
\* key-value set of which some pair matches an inclusion rule; it returns
\* false for the empty key-value set and, when the inclusion map has no
\* rules, for every key-value set.
C38_NonNilInclusionNeedsMatch ==
    (filterFn # "none" /\ ~inclusion.isNil) =>
        /\ filterRet = TRUE => MatchesSomeRule(inclusion)
        /\ DOMAIN kv = {} => filterRet = FALSE
        /\ DOMAIN inclusion.m = {} => filterRet = FALSE

\* an inclusion map without rules and no exclusion filter: a set with both
\* keys is rejected
C38_Witness ==
    /\ filterFn = "KVMatchesFilters"
    /\ ~inclusion.isNil
    /\ DOMAIN inclusion.m = {}
    /\ exclusion.isNil
    /\ DOMAIN kv = Keys
    /\ filterRet = FALSE

\* ------------------------------------------------------------- rangeToIPs

\* what the other components leave alone while rangeToIPs runs
iprFrame == <<engineVars, resultVars, filterVars, mud, aws, nd, cd>>

\* a byte holds 0..ByteMod-1 and wraps
ByteMod == 2 ^ MaxByteBits
\* net.IP: a slice of bytes, most significant first
IPs == [1..MaxIpLen -> 0..(ByteMod - 1)]

\* ip.String(): the bytes in decimal, joined by dots
ipString(ip) ==
    [i \in 1..(2 * Len(ip) - 1) |-> IF i % 2 = 1 THEN ip[(i + 1) \div 2] ELSE "."]

\* incIP(ip): for j := len(ip) - 1; j >= 0; j-- { ip[j]++; if ip[j] > 0 { break } }
incIP(ip) ==
    LET RECURSIVE Inc(_, _)
        Inc(a, j) ==
            IF j < 1 THEN a
            ELSE LET b == (a[j] + 1) % ByteMod
                 IN IF b > 0 THEN [a EXCEPT ![j] = b]
                    ELSE Inc([a EXCEPT ![j] = b], j - 1)
    IN Inc(ip, Len(ip))

\* a call rangeToIPs(ipRange): what strings.Split and net.ParseIP make of
\* ipRange ("ok": two parts, both parsed, as startIP and endIP)
IprCall(parse, startIP, endIP) ==
    [pc |-> "call", parse |-> parse, startIP |-> startIP, endIP |-> endIP,
     ip |-> startIP, ips |-> <<>>, err |-> "nil"]

\* strings.Split, net.ParseIP and their error returns; ips := make([]string, 0)
\* and ip := startIP
IprParse ==
    /\ ipr.pc = "call"
    /\ IF ipr.parse = "ok"
         THEN ipr' = [ipr EXCEPT !.pc = "loop", !.ip = ipr.startIP]
         ELSE ipr' = [ipr EXCEPT !.pc = "returned", !.err = ipr.parse]
    /\ UNCHANGED iprFrame

\* one iteration: !ip.Equal(endIP); ips = append(ips, ip.String()); incIP(ip)
IprLoop ==
    /\ ipr.pc = "loop"
    /\ ipr.ip # ipr.endIP
    /\ ipr' = [ipr EXCEPT !.ips = Append(@, ipString(ipr.ip)), !.ip = incIP(@)]
    /\ UNCHANGED iprFrame

\* the loop ends: ips = append(ips, endIP.String()); return ips, nil
IprReturn ==
    /\ ipr.pc = "loop"
    /\ ipr.ip = ipr.endIP
    /\ ipr' = [ipr EXCEPT !.ips = Append(@, ipString(ipr.endIP)), !.pc = "returned"]
    /\ UNCHANGED iprFrame

InitIpr ==
    /\ EngineIdle
    /\ ResultIdle
    /\ FilterIdle
    /\ mud = Idle
    /\ aws = Idle
    /\ nd = Idle
    /\ cd = Idle
    /\ \E parse \in {"ok", "invalid range", "invalid IP address"} :
       \E startIP \in IPs, endIP \in IPs :
          ipr = IprCall(parse, startIP, endIP)

NextIpr ==
    \/ IprParse
    \/ IprLoop
    \/ IprReturn

SpecIpr == InitIpr /\ [][NextIpr]_vars

\* the call keeps running
FairIpr == SpecIpr /\ WF_vars(NextIpr)

\* the address as a big-endian integer, and the address of an integer
IpValue(ip) ==
    LET RECURSIVE V(_)
        V(j) == IF j < 1 THEN 0 ELSE ip[j] + ByteMod * V(j - 1)
    IN V(Len(ip))
IpOf(n) == CHOOSE ip \in IPs : IpValue(ip) = n

\* the addresses a with startIP <= a <= endIP, ascending, as strings
AddressesBetween(startIP, endIP) ==
    IF IpValue(startIP) > IpValue(endIP) THEN <<>>
    ELSE [i \in 1..(IpValue(endIP) - IpValue(startIP) + 1) |->
              ipString(IpOf(IpValue(startIP) + i - 1))]

\* C39: for every parseable start and end address rangeToIPs terminates and
\* returns exactly the addresses a with start <= a <= end, in ascending
\* order and each once; incIP steps to the next address, with carry.
C39_RangeIsExactlyStartToEnd ==
    /\ (ipr.pc = "loop") ~> (ipr.pc = "returned")
    /\ []((ipr.pc = "returned" /\ ipr.parse = "ok") =>
             ipr.ips = AddressesBetween(ipr.startIP, ipr.endIP))
    /\ [][(ipr.pc = "loop" /\ ipr'.ip # ipr.ip) =>
             IpValue(ipr'.ip) = (IpValue(ipr.ip) + 1) % (ByteMod ^ MaxIpLen)]_vars

====
